---- MODULE Spec2Model ----
(***************************************************************************)
(* A model of the expense_api backend: the Express routers for savings,    *)
(* expenses and analytics, the Mongoose models behind them, and the record *)
(* store they query.  Handlers are translated from src/routes/savings.js   *)
(* (which holds both the savings and the expenses router), the models from *)
(* src/unnamed/part_002 and the analytics router from src/unnamed/part_000.*)
(*                                                                         *)
(* Abstractions: a Date is an integer instant; an ObjectId is a string; a  *)
(* query-string number is a sequence of one-character strings, parsed and  *)
(* validated as the code does; an amount is an integer.                    *)
(***************************************************************************)
EXTENDS Integers, Sequences, FiniteSets, TLC

VARIABLES savings, expenses, users, nextId, pend, resp, calc

vars == <<savings, expenses, users, nextId, pend, resp, calc>>

(***************************************************************************)
(* Bounds of the model.                                                    *)
(***************************************************************************)
\* ObjectIds the store ever issues (documents ever created).
MaxId == 1
\* The documents of the store that the query handlers are run on.
MaxDocs == 3
\* Update requests that may be between their findOne and their save.
MaxPending == 2
\* Largest page number of the pagination harness.
MaxPage == 6
\* Largest total item count of the pagination harness.
MaxTotal == 100
MaxAmount == 150
MaxTarget == 100
MaxNow == 4

(***************************************************************************)
(* Program constants.                                                      *)
(***************************************************************************)
\* query('limit').isInt({ min: 1, max: 100 })
MaxLimit == 100
\* query('page').isInt({ min: 1 }) and query('limit').isInt({ min: 1, ... })
MinPage == 1
\* const { page = 1, limit = 20, ... } = req.query
DefaultLimit == 20
TopLimit == 5
MinYear == 2020
MaxYear == 2030
MonthsOfYear == 12

Users == {"u1", "u2"}

\* currency: two of the values of the enum, and req.user.currency of each user.
Currencies == {"UGX", "USD"}


\* null / undefined where the code passes it as a value (a null date bound).
NULL == 0 - 1

Dates == {1, 2, 3}
SavingsTypes == {"Monthly", "Goal"}
SavingsCategoryNames == {"General Savings", "Other"}
ExpenseCategories == {"Food & Dining", "Other"}
PaymentMethods == {"Cash"}

(***************************************************************************)
(* Strings of the query string: sequences of one-character strings.        *)
(***************************************************************************)
DigitChars == <<"0", "1", "2", "3", "4", "5", "6", "7", "8", "9">>

IsDigit(c) == \E i \in 1..10 : DigitChars[i] = c

DigitVal(c) == (CHOOSE i \in 1..10 : DigitChars[i] = c) - 1

IsSign(c) == c \in {"-", "+"}

\* String(n) for a natural number n: its decimal digits.
RECURSIVE Digits(_)
Digits(n) == IF n < 10 THEN <<DigitChars[n + 1]>>
             ELSE Append(Digits(n \div 10), DigitChars[(n % 10) + 1])

\* The value of a sequence of digits, most significant first.
RECURSIVE DigitsValue(_)
DigitsValue(s) == IF s = <<>> THEN 0
                  ELSE 10 * DigitsValue(SubSeq(s, 1, Len(s) - 1)) + DigitVal(s[Len(s)])

\* The longest prefix of s made of digits.
RECURSIVE DigitPrefix(_)
DigitPrefix(s) == IF s = <<>> \/ ~IsDigit(Head(s)) THEN <<>>
                  ELSE <<Head(s)>> \o DigitPrefix(Tail(s))

\* JavaScript truthiness of a string: every string but the empty one.
Truthy(s) == s /= <<>>

\* parseInt(s): an optional sign, then the longest run of digits; NaN (here the
\* string "NaN") when there is none.
ParseInt(s) ==
    LET signed == s /= <<>> /\ IsSign(Head(s))
        rest == IF signed THEN Tail(s) ELSE s
        run == DigitPrefix(rest)
    IN  IF run = <<>> THEN "NaN"
        ELSE IF signed /\ Head(s) = "-" THEN 0 - DigitsValue(run)
        ELSE DigitsValue(run)

\* parseFloat(s) on the strings of the model (no fraction, no exponent).
ParseFloat(s) == ParseInt(s)

\* validator.js isInt: /^[-+]?[0-9]+$/ (leading zeroes allowed by default).
IsIntShape(s) ==
    LET rest == IF s /= <<>> /\ IsSign(Head(s)) THEN Tail(s) ELSE s
    IN  rest /= <<>> /\ \A i \in 1..Len(rest) : IsDigit(rest[i])

\* isInt({ min }) : the shape and the lower bound.
IsIntMin(s, min) == IsIntShape(s) /\ ParseInt(s) >= min

\* isInt({ min, max }) that forgets its maximum.
IsIntNoMax(s, min, max) == IsIntMin(s, min)

\* isInt({ min, max }) : the shape and both bounds.
IsIntRange(s, min, max) == IsIntShape(s) /\ ParseInt(s) >= min /\ ParseInt(s) <= max

\* isFloat({ min }) on the strings of the model: a signed run of digits is the
\* only float shape the alphabet can spell.
IsFloatMin(s, min) == IsIntShape(s) /\ ParseFloat(s) >= min

(***************************************************************************)
(* Requests.  req.query and req.body are functions from the keys that were *)
(* supplied to their values; an absent key is undefined.                   *)
(***************************************************************************)
Has(obj, k) == k \in DOMAIN obj

Empty == [k \in {} |-> 0]

\* The object o with key k set to v.
With(o, k, v) == [x \in DOMAIN o \cup {k} |-> IF x = k THEN v ELSE o[x]]

Req(router, method, path, user, query, body) ==
    [router |-> router, method |-> method, path |-> path, user |-> user,
     query |-> query, body |-> body]

\* req.user of a request that carries no token.
NoToken == "no token"

(***************************************************************************)
(* Rational numbers <<n, d>> in lowest terms, d > 0: the values of the     *)
(* goal's progress (amount / targetAmount * 100).                          *)
(***************************************************************************)
RECURSIVE Gcd(_, _)
Gcd(a, b) == IF b = 0 THEN a ELSE Gcd(b, a % b)

Rat(n, d) == IF n = 0 THEN <<0, 1>> ELSE <<n \div Gcd(n, d), d \div Gcd(n, d)>>

RatLe(p, q) == p[1] * q[2] <= q[1] * p[2]

\* Math.min(p, q)
RatMin(p, q) == IF RatLe(p, q) THEN p ELSE q

Hundred == Rat(100, 1)

Zero == Rat(0, 1)

(***************************************************************************)
(* The models (src/unnamed/part_002).  A savings document is               *)
(*   [user, amount, currency, type, category, date, period |-> [startDate, *)
(*    endDate], goal |-> [targetAmount, targetDate, progress, isCompleted]] *)
(* with goal.targetAmount and goal.targetDate = NULL when they are not     *)
(* set; an expense document is [user, amount, currency, category, date,    *)
(* paymentMethod].  Amounts are counted in hundredths, so the schema's     *)
(* minimum of 0.01 is 1.                                                   *)
(***************************************************************************)
\* savingsSchema.amount.min, goal.targetAmount.min
SavingsMinAmount == 0
\* expenseSchema.amount.min (0.01)
ExpenseMinAmount == 1

\* goal: the schema defaults for the paths an object leaves out.
GoalOf(g) ==
    [targetAmount |-> IF Has(g, "targetAmount") THEN g["targetAmount"] ELSE NULL,
     targetDate |-> IF Has(g, "targetDate") THEN g["targetDate"] ELSE NULL,
     progress |-> IF Has(g, "progress") THEN g["progress"] ELSE Zero,
     isCompleted |-> IF Has(g, "isCompleted") THEN g["isCompleted"] ELSE FALSE]

\* The stored goal as the plain object Mongoose compares an assigned value with.
GoalObject(goal) ==
    LET o == [k \in {"progress", "isCompleted"} |-> goal[k]]
        a == IF goal.targetAmount = NULL THEN o ELSE With(o, "targetAmount", goal.targetAmount)
    IN  IF goal.targetDate = NULL THEN a ELSE With(a, "targetDate", goal.targetDate)

\* updateGoalProgress without the ceiling of 100.
UpdateGoalProgressWrong(doc) ==
    IF doc.goal.targetAmount /= NULL /\ doc.goal.targetAmount > 0
    THEN [doc EXCEPT !.goal.progress = Rat(doc.amount * 100, doc.goal.targetAmount),
                     !.goal.isCompleted = RatLe(Hundred, Rat(doc.amount * 100, doc.goal.targetAmount))]
    ELSE doc

\* savingsSchema.methods.updateGoalProgress, run by pre('save').
updateGoalProgress(doc) ==
    IF doc.goal.targetAmount /= NULL /\ doc.goal.targetAmount > 0
    THEN LET progress == RatMin(Rat(doc.amount * 100, doc.goal.targetAmount), Hundred)
         IN  [doc EXCEPT !.goal.progress = progress,
                         !.goal.isCompleted = RatLe(Hundred, progress)]
    ELSE doc

\* goalProgressPercentage without the ceiling of 100.
GoalProgressNoCeiling(doc) ==
    IF doc.goal.targetAmount = NULL \/ doc.goal.targetAmount = 0 THEN Zero
    ELSE Rat(doc.amount * 100, doc.goal.targetAmount)

\* The virtual goalProgressPercentage.
goalProgressPercentage(doc) ==
    IF doc.goal.targetAmount = NULL \/ doc.goal.targetAmount = 0 THEN Zero
    ELSE RatMin(Rat(doc.amount * 100, doc.goal.targetAmount), Hundred)

(***************************************************************************)
(* The User model (src/unnamed/part_003).  A user document is              *)
(*   [email, password, firstName, lastName, currency, isActive, lastLogin]; *)
(* phoneNumber, timezone and notificationSettings are left out.  An email, *)
(* a password and a name are sequences of one-character strings.           *)
(***************************************************************************)
MinPasswordLength == 6
MaxNameLength == 50
MinTldLength == 2
MaxTldLength == 3

\* lowercase: true, normalizeEmail(): "A" is the capital letter of the model.
LowerCase(s) == [i \in DOMAIN s |-> IF s[i] = "A" THEN "a" ELSE s[i]]

\* trim: true, trim(): without the spaces at both ends.
RECURSIVE Trim(_)
Trim(s) ==
    IF s = <<>> THEN s
    ELSE IF Head(s) = " " THEN Trim(Tail(s))
    ELSE IF s[Len(s)] = " " THEN Trim(SubSeq(s, 1, Len(s) - 1))
    ELSE s

\* The shape local@name.tld of an address whose tld has min..max characters
\* (max = NULL: any number): one "@", letters before it, one "." after it
\* with letters on both sides.
EmailShape(s, min, max) ==
    \E at \in DOMAIN s, dot \in DOMAIN s :
        /\ s[at] = "@" /\ s[dot] = "."
        /\ 1 < at /\ at + 1 < dot
        /\ Len(s) - dot >= min /\ (max = NULL \/ Len(s) - dot <= max)
        /\ \A i \in DOMAIN s \ {at, dot} : s[i] \notin {"@", ".", " "}

\* bcrypt.hash(password, salt) and bcrypt.compare: a hash matches the
\* password it was made from and no other.
Hash(password) == [bcrypt |-> password]

\* userSchema.methods.comparePassword
comparePassword(user, candidatePassword) == user.password = Hash(candidatePassword)

\* The schema's validators on the paths of a new user.
UserSchemaValid(data) ==
    /\ {"email", "password", "firstName", "lastName"} \subseteq DOMAIN data
    /\ EmailShape(LowerCase(Trim(data["email"])), MinTldLength, MaxTldLength)
    /\ Len(data["password"]) >= MinPasswordLength
    /\ Len(Trim(data["firstName"])) <= MaxNameLength
    /\ Len(Trim(data["lastName"])) <= MaxNameLength
    /\ Has(data, "currency") => data["currency"] \in Currencies

\* new User(data) as pre('save') stores it: the password hashed.
\* userSchema.notificationSettings: the paths of the nested object.
NotificationKeys ==
    {"dailyReminder", "weeklyReport", "monthlyReport", "budgetAlerts", "pushNotifications"}

NewUser(data, now) ==
    [email |-> LowerCase(Trim(data["email"])),
     password |-> Hash(data["password"]),
     firstName |-> Trim(data["firstName"]),
     lastName |-> Trim(data["lastName"]),
     currency |-> IF Has(data, "currency") THEN data["currency"] ELSE "UGX",
     notificationSettings |-> [k \in NotificationKeys |-> TRUE],
     isActive |-> TRUE,
     lastLogin |-> now]

\* The accounts of the users of the model.
SeedUsers ==
    [u \in Users |->
        NewUser([email |-> IF u = "u1" THEN <<"a", "@", "b", ".", "c", "c">>
                           ELSE <<"b", "@", "b", ".", "c", "c">>,
                 password |-> IF u = "u1" THEN Digits(123456) ELSE Digits(654321),
                 firstName |-> <<"a">>, lastName |-> <<"b">>,
                 currency |-> IF u = "u1" THEN "UGX" ELSE "USD"], 1)]

\* req.user.currency: protect loads req.user from the user store.
UserCurrency(u) == users[u].currency

(***************************************************************************)
(* The record store: query predicates and the operations on a collection   *)
(* (a function from the _id of each stored document to the document).      *)
(* A predicate maps a path to a clause, a clause maps an operator to its    *)
(* operand; {path: v} is the clause {$eq: v}.                              *)
(***************************************************************************)
Eq(v) == [op \in {"$eq"} |-> v]

\* The number an ObjectId string was issued as.
IdNum(id) == CHOOSE i \in 1..(MaxId + MaxDocs) : ToString(i) = id

\* The strings that cast to an ObjectId.
ObjectIds == {ToString(i) : i \in 1..(MaxId + MaxDocs)}

IsObjectId(s) == s \in ObjectIds

\* The value of a path of the document stored under id.
Field(id, doc, path) ==
    IF path = "_id" THEN id
    ELSE IF path = "goal.targetAmount" THEN doc.goal.targetAmount
    ELSE IF path = "goal.targetDate" THEN doc.goal.targetDate
    ELSE doc[path]

\* One operator of a clause.  A comparison with null matches only a null or
\* missing value (MongoDB compares within a type).
OpHolds(op, v, operand) ==
    CASE op = "$eq" -> v = operand
      [] op = "$in" -> v \in operand
      [] op = "$exists" -> (v /= NULL) = operand
      [] op = "$gte" -> IF operand = NULL THEN v = NULL ELSE v /= NULL /\ v >= operand
      [] op = "$lte" -> IF operand = NULL THEN v = NULL ELSE v /= NULL /\ v <= operand
      [] op = "$gt" -> IF operand = NULL THEN FALSE ELSE v /= NULL /\ v > operand

\* Whether the document stored under id satisfies every clause of pred.
Matches(id, doc, pred) ==
    \A path \in DOMAIN pred :
        \A op \in DOMAIN pred[path] : OpHolds(op, Field(id, doc, path), pred[path][op])

\* Model.find(pred): the _ids of the matching documents.
Find(coll, pred) == {id \in DOMAIN coll : Matches(id, coll[id], pred)}

\* Model.countDocuments(pred)
CountDocuments(coll, pred) == Cardinality(Find(coll, pred))

\* The collection without the documents of ids.
Without(coll, ids) == [id \in DOMAIN coll \ ids |-> coll[id]]

\* A stored document as it is returned: with its _id.
Returned(coll, id) == With(coll[id], "_id", id)

RECURSIVE SumAmount(_, _)
SumAmount(coll, ids) ==
    IF ids = {} THEN 0
    ELSE LET id == CHOOSE x \in ids : TRUE
         IN  coll[id].amount + SumAmount(coll, ids \ {id})

\* .sort({key: dir}): a before b; equal keys keep the order of insertion.
Before(coll, a, b, key, dir) ==
    LET ka == Field(a, coll[a], key)
        kb == Field(b, coll[b], key)
    IN  IF ka = kb THEN IdNum(a) < IdNum(b)
        ELSE IF dir = 1 THEN ka < kb ELSE ka > kb

RECURSIVE Sorted(_, _, _, _)
Sorted(coll, ids, key, dir) ==
    IF ids = {} THEN <<>>
    ELSE LET first == CHOOSE a \in ids : \A b \in ids \ {a} : Before(coll, a, b, key, dir)
         IN  <<first>> \o Sorted(coll, ids \ {first}, key, dir)

\* .skip(skip).limit(limit) of a sorted result.
Window(seq, skip, limit) ==
    IF skip >= Len(seq) THEN <<>>
    ELSE SubSeq(seq, skip + 1, IF skip + limit < Len(seq) THEN skip + limit ELSE Len(seq))

(***************************************************************************)
(* Routing (Express): the routes of a router are tried in the order they   *)
(* were registered; a ':name' segment matches any one segment; the first   *)
(* route that matches handles the request and calls no later one.          *)
(***************************************************************************)
IsParam(seg) == seg \in {":id", ":type"}

RouteMatches(route, method, path) ==
    /\ route.method = method
    /\ Len(route.pattern) = Len(path)
    /\ \A i \in 1..Len(path) : IsParam(route.pattern[i]) \/ route.pattern[i] = path[i]

Route(method, pattern, handler) == [method |-> method, pattern |-> pattern, handler |-> handler]

\* The savings router, in registration order.
SavingsRoutes ==
    << Route("POST", <<>>, "savings.create"),
       Route("GET", <<>>, "savings.list"),
       Route("GET", <<":id">>, "savings.getById"),
       Route("PUT", <<":id">>, "savings.update"),
       Route("DELETE", <<":id">>, "savings.delete"),
       Route("GET", <<"summary", "period">>, "savings.summary"),
       Route("GET", <<"goals">>, "savings.goals"),
       Route("GET", <<"type", ":type">>, "savings.byType"),
       Route("DELETE", <<"bulk">>, "savings.bulkDelete"),
       Route("GET", <<"categories">>, "savings.categories") >>

\* The expenses router, in registration order.
ExpenseRoutes ==
    << Route("POST", <<>>, "expenses.create"),
       Route("GET", <<>>, "expenses.list"),
       Route("GET", <<":id">>, "expenses.getById"),
       Route("PUT", <<":id">>, "expenses.update"),
       Route("DELETE", <<":id">>, "expenses.delete"),
       Route("GET", <<"summary", "summary">>, "expenses.summary"),
       Route("DELETE", <<"bulk">>, "expenses.bulkDelete"),
       Route("GET", <<"categories">>, "expenses.categories") >>

\* The analytics router, in registration order.
AnalyticsRoutes ==
    << Route("GET", <<"expenses", "pie-chart">>, "analytics.expensesPieChart"),
       Route("GET", <<"savings", "pie-chart">>, "analytics.savingsPieChart"),
       Route("GET", <<"overview">>, "analytics.overview"),
       Route("GET", <<"trends", "monthly">>, "analytics.monthlyTrends") >>

\* The routes of the auth router that take no token.
AuthRoutes ==
    << Route("POST", <<"register">>, "auth.register"),
       Route("POST", <<"login">>, "auth.login") >>

\* The routes of the user router that read and deactivate the account.
UserRoutes ==
    << Route("GET", <<"profile">>, "user.getProfile"),
       Route("PUT", <<"profile">>, "user.updateProfile"),
       Route("PUT", <<"notifications">>, "user.updateNotifications"),
       Route("PUT", <<"change-password">>, "user.changePassword"),
       Route("DELETE", <<"account">>, "user.deleteAccount") >>

\* app.use('/api/auth', ...), app.use('/api/user', ...),
\* app.use('/api/expenses', ...), app.use('/api/savings', ...), ...
RoutesOf(router) ==
    CASE router = "savings" -> SavingsRoutes
      [] router = "expenses" -> ExpenseRoutes
      [] router = "analytics" -> AnalyticsRoutes
      [] router = "auth" -> AuthRoutes
      [] router = "user" -> UserRoutes

\* The routers with router.use(protect), were the expenses router without it.
ProtectedRoutersButExpenses == {"user", "savings", "analytics"}

\* The routers that start with router.use(protect): every request to them
\* passes the middleware before a route is matched.
ProtectedRouters == {"user", "expenses", "savings", "analytics"}

\* The handler that serves req: the first registered route that matches, or
\* the application's 404 handler.
Dispatch(req) ==
    LET routes == RoutesOf(req.router)
        hits == {i \in 1..Len(routes) : RouteMatches(routes[i], req.method, req.path)}
    IN  IF hits = {} THEN "notFound"
        ELSE routes[CHOOSE i \in hits : \A j \in hits : i <= j].handler

(***************************************************************************)
(* Responses.  resp is the last step of a handler: the request it serves,   *)
(* the handler, the HTTP status of the response (0 while the request waits *)
(* for the store and has sent none), the JSON body (a function from its    *)
(* keys), and the predicates the step sent to the record store.            *)
(***************************************************************************)
Reply(req, handler, status, body, sent) ==
    resp' = [req |-> req, handler |-> handler, status |-> status, body |-> body,
             sent |-> sent]

\* The body of a 400 of the validationResult check: errors.array(), here the
\* set of the fields that failed.
ValidationFailed(errors) == [message |-> "Validation failed", errors |-> errors]

(***************************************************************************)
(* The savings router (src/routes/savings.js, lines 1-523).                *)
(***************************************************************************)
StoreUnchanged == UNCHANGED <<savings, expenses, nextId, pend, calc, users>>

\* The validators of POST /api/savings that the model's bodies can fail.
SavingsCreateErrors(body) ==
    {f \in {"amount", "type", "category", "period.startDate", "period.endDate",
            "goal.targetAmount"} :
        CASE f = "amount" -> ~(Has(body, "amount") /\ body["amount"] >= SavingsMinAmount)
          [] f = "type" -> ~(Has(body, "type") /\ body["type"] \in SavingsTypes)
          [] f = "category" ->
                ~(Has(body, "category") /\ body["category"] \in SavingsCategoryNames)
          [] f = "period.startDate" ->
                ~(Has(body, "period") /\ Has(body["period"], "startDate"))
          [] f = "period.endDate" ->
                ~(Has(body, "period") /\ Has(body["period"], "endDate"))
          [] f = "goal.targetAmount" ->
                /\ Has(body, "goal")
                /\ Has(body["goal"], "targetAmount")
                /\ body["goal"]["targetAmount"] < SavingsMinAmount}

\* The schema's validators on a savings document (run by save before the
\* pre('save') hook).
SavingsSchemaValid(doc) ==
    /\ doc.amount >= SavingsMinAmount
    /\ doc.type \in SavingsTypes
    /\ doc.currency \in Currencies
    /\ doc.goal.targetAmount = NULL \/ doc.goal.targetAmount >= SavingsMinAmount
    /\ RatLe(Zero, doc.goal.progress) /\ RatLe(doc.goal.progress, Hundred)

\* { ...req.body, user: req.user._id, currency: req.body.currency || req.user.currency }
\* { user, currency, ...req.body }: the data, were the body spread last.
CreateDataBodyLast(body, user) ==
    [k \in DOMAIN body \cup {"user", "currency"} |->
        IF k \in DOMAIN body THEN body[k]
        ELSE IF k = "user" THEN user ELSE UserCurrency(user)]

CreateData(body, user) ==
    With(With(body, "user", user), "currency",
         IF Has(body, "currency") /\ body["currency"] /= "" THEN body["currency"]
         ELSE UserCurrency(user))

\* new Savings(savingsData): the schema paths of the data, defaults for the rest.
NewSavings(data, now) ==
    [user |-> data["user"],
     amount |-> data["amount"],
     currency |-> IF Has(data, "currency") THEN data["currency"] ELSE "UGX",
     type |-> data["type"],
     category |-> IF Has(data, "category") THEN data["category"] ELSE "Other",
     date |-> IF Has(data, "date") THEN data["date"] ELSE now,
     period |-> [startDate |-> data["period"]["startDate"],
                 endDate |-> data["period"]["endDate"]],
     goal |-> IF Has(data, "goal") THEN GoalOf(data["goal"]) ELSE GoalOf(Empty)]

\* POST /api/savings
SavingsCreate(req, now) ==
    LET h == "savings.create"
        errors == SavingsCreateErrors(req.body)
        savingsData == CreateData(req.body, req.user)
        doc == NewSavings(savingsData, now)
        id == ToString(nextId)
    IN  IF errors /= {}
        THEN Reply(req, h, 400, ValidationFailed(errors), <<>>) /\ StoreUnchanged
        ELSE IF ~SavingsSchemaValid(doc)
        THEN /\ Reply(req, h, 500, [message |-> "Server error while creating savings entry"], <<>>)
             /\ StoreUnchanged
        ELSE /\ nextId <= MaxId
             /\ savings' = With(savings, id, updateGoalProgress(doc))
             /\ nextId' = nextId + 1
             /\ Reply(req, h, 201,
                      [success |-> TRUE, message |-> "Savings entry created successfully",
                       data |-> With(updateGoalProgress(doc), "_id", id)], <<>>)
             /\ UNCHANGED <<expenses, pend, calc, users>>

\* The fields of a list request that fail their validator.
ListErrors(q, sortFields) ==
    {f \in DOMAIN q :
        CASE f = "page" -> ~IsIntMin(q[f], MinPage)
          [] f = "limit" -> ~IsIntRange(q[f], MinPage, MaxLimit)
          [] f \in {"minAmount", "maxAmount"} -> ~IsFloatMin(q[f], 0)
          [] f = "sortBy" -> q[f] \notin sortFields
          [] f = "sortOrder" -> q[f] \notin {"asc", "desc"}
          [] OTHER -> FALSE}

\* if (x) for the criterion x of a query: x was supplied and is not the empty
\* string (a date string that passed isISO8601 is never empty).
Given(q, k) ==
    /\ Has(q, k)
    /\ CASE k \in {"page", "limit", "minAmount", "maxAmount"} -> Truthy(q[k])
         [] k \in {"startDate", "endDate"} -> TRUE
         [] OTHER -> q[k] /= ""

\* new Date(s) of a valid date string: the instant it names (a date string of
\* the model is that instant).
NewDate(s) == s

\* The lower/upper bound clause of a pair of criteria: the bounds that were
\* given, dates through new Date and amounts through parseFloat.
RangeClause(q, lo, hi) ==
    LET Parse(k) == IF k \in {"minAmount", "maxAmount"} THEN ParseFloat(q[k]) ELSE NewDate(q[k])
    IN  [op \in {o \in {"$gte", "$lte"} : Given(q, IF o = "$gte" THEN lo ELSE hi)} |->
            IF op = "$gte" THEN Parse(lo) ELSE Parse(hi)]

\* A list handler that takes a bound of 0 for an absent bound.
ListQueryFalsyZero(user, q, equalities) ==
    LET GivenNum(k) == Given(q, k) /\ (k \in {"minAmount", "maxAmount"} => ParseFloat(q[k]) /= 0)
        keys == {"user"}
                \cup (IF Given(q, "startDate") \/ Given(q, "endDate") THEN {"date"} ELSE {})
                \cup {k \in equalities : Given(q, k)}
                \cup (IF GivenNum("minAmount") \/ GivenNum("maxAmount") THEN {"amount"} ELSE {})
    IN  [k \in keys |->
            CASE k = "user" -> Eq(user)
              [] k = "date" -> RangeClause(q, "startDate", "endDate")
              [] k = "amount" ->
                    [op \in {o \in {"$gte", "$lte"} :
                                GivenNum(IF o = "$gte" THEN "minAmount" ELSE "maxAmount")} |->
                        IF op = "$gte" THEN ParseFloat(q["minAmount"])
                        ELSE ParseFloat(q["maxAmount"])]
              [] OTHER -> Eq(q[k])]

\* "Build query" of the list handlers: the owner, then a clause for each
\* criterion that is given; equalities are the handler's exact-match criteria.
ListQuery(user, q, equalities) ==
    LET keys == {"user"}
                \cup (IF Given(q, "startDate") \/ Given(q, "endDate") THEN {"date"} ELSE {})
                \cup {k \in equalities : Given(q, k)}
                \cup (IF Given(q, "minAmount") \/ Given(q, "maxAmount") THEN {"amount"} ELSE {})
    IN  [k \in keys |->
            CASE k = "user" -> Eq(user)
              [] k = "date" -> RangeClause(q, "startDate", "endDate")
              [] k = "amount" -> RangeClause(q, "minAmount", "maxAmount")
              [] OTHER -> Eq(q[k])]

\* Math.ceil(a / b) for a >= 0, b > 0.
Ceil(a, b) == (a + b - 1) \div b

\* const { page = 1, limit = 20 } = req.query, as the strings parseInt reads.
PageOf(q) == IF Has(q, "page") THEN q["page"] ELSE Digits(MinPage)

LimitOf(q) == IF Has(q, "limit") THEN q["limit"] ELSE Digits(DefaultLimit)

\* const skip = (parseInt(page) - 1) * parseInt(limit)
Skip(page, limit) == (ParseInt(page) - 1) * ParseInt(limit)

\* Pagination metadata whose page count is rounded down.
PaginationFloor(page, limit, total) ==
    LET totalPages == total \div ParseInt(limit)
    IN  [currentPage |-> ParseInt(page),
         totalPages |-> totalPages,
         totalItems |-> total,
         itemsPerPage |-> ParseInt(limit),
         hasNextPage |-> ParseInt(page) < totalPages,
         hasPrevPage |-> ParseInt(page) > 1]

\* The pagination object of a list response.
Pagination(page, limit, total) ==
    LET totalPages == Ceil(total, ParseInt(limit))
    IN  [currentPage |-> ParseInt(page),
         totalPages |-> totalPages,
         totalItems |-> total,
         itemsPerPage |-> ParseInt(limit),
         hasNextPage |-> ParseInt(page) < totalPages,
         hasPrevPage |-> ParseInt(page) > 1]

\* The sort of a list request: sortBy = 'date', sortOrder = 'desc' by default.
SortKey(q) == IF Has(q, "sortBy") THEN q["sortBy"] ELSE "date"

SortDir(q) == IF Has(q, "sortOrder") /\ q["sortOrder"] = "asc" THEN 1 ELSE 0 - 1

\* The body of a list response: the page of the matching documents and the
\* pagination computed from their count.
\* The body of a list response whose find ran on the collection as it was
\* in found and whose countDocuments ran on it as it was in counted.
ListBodyAt(found, counted, pred, q) ==
    LET page == Window(Sorted(found, Find(found, pred), SortKey(q), SortDir(q)),
                       Skip(PageOf(q), LimitOf(q)), ParseInt(LimitOf(q)))
        total == CountDocuments(counted, pred)
    IN  [success |-> TRUE,
         data |-> [i \in 1..Len(page) |-> Returned(found, page[i])],
         pagination |-> Pagination(PageOf(q), LimitOf(q), total)]

\* The body of a list response whose two queries saw the same collection.
ListBody(coll, pred, q) == ListBodyAt(coll, coll, pred, q)

\* The predicate of GET /api/savings
SavingsListQuery(user, q) == ListQuery(user, q, {"type", "category"})

\* GET /api/savings
SavingsList(req) ==
    LET h == "savings.list"
        errors == ListErrors(req.query, {"date", "amount", "type", "category", "createdAt"})
        query == SavingsListQuery(req.user, req.query)
    IN  /\ IF errors /= {}
           THEN Reply(req, h, 400, ValidationFailed(errors), <<>>)
           ELSE Reply(req, h, 200, ListBody(savings, query, req.query), <<query, query>>)
        /\ StoreUnchanged

\* A lookup by id alone.
ByIdAnyOwner(id, user) == [k \in {"_id"} |-> Eq(id)]

\* Savings.findOne({ _id, user }) and its like: the predicate of a lookup by id.
ById(id, user) == [k \in {"_id", "user"} |-> IF k = "_id" THEN Eq(id) ELSE Eq(user)]

\* GET /api/savings up to the answer of the first of the two queries of
\* Promise.all([find, countDocuments]): the store answers them one at a
\* time, in either order, and first is the one it answers first.
SavingsListFirst(req, first) ==
    LET h == "savings.list"
        errors == ListErrors(req.query, {"date", "amount", "type", "category", "createdAt"})
        query == SavingsListQuery(req.user, req.query)
    IN  IF errors /= {}
        THEN Reply(req, h, 400, ValidationFailed(errors), <<>>) /\ StoreUnchanged
        ELSE /\ Cardinality(pend) < MaxPending
             /\ pend' = pend \cup {[req |-> req, handler |-> h, doc |-> savings,
                                     first |-> first]}
             /\ Reply(req, h, 0, Empty, <<query>>)
             /\ UNCHANGED <<savings, expenses, nextId, calc, users>>

\* GET /api/savings from the answer of the second query to the response.
SavingsListSecond(p) ==
    LET h == "savings.list"
        query == SavingsListQuery(p.req.user, p.req.query)
        found == IF p.first = "find" THEN p.doc ELSE savings
        counted == IF p.first = "find" THEN savings ELSE p.doc
    IN  /\ p.handler = h
        /\ pend' = pend \ {p}
        /\ Reply(p.req, h, 200, ListBodyAt(found, counted, query, p.req.query),
                 <<query, query>>)
        /\ UNCHANGED <<savings, expenses, nextId, calc, users>>

\* GET /api/savings/:id, were the entry fetched with findOneAndDelete.
SavingsGetAndDelete(req) ==
    LET h == "savings.getById"
        id == req.path[1]
        query == ById(id, req.user)
        found == Find(savings, query)
    IN  IF ~IsObjectId(id) \/ found = {}
        THEN /\ Reply(req, h, 404, [message |-> "Savings entry not found"], <<query>>)
             /\ StoreUnchanged
        ELSE /\ savings' = Without(savings, found)
             /\ Reply(req, h, 200,
                      [success |-> TRUE, data |-> Returned(savings, CHOOSE x \in found : TRUE)],
                      <<query>>)
             /\ UNCHANGED <<expenses, nextId, pend, calc, users>>

\* GET /api/savings/:id
SavingsGetById(req) ==
    LET h == "savings.getById"
        id == req.path[1]
        query == ById(id, req.user)
        found == Find(savings, query)
    IN  /\ IF ~IsObjectId(id)
           THEN Reply(req, h, 500, [message |-> "Server error while fetching savings entry"],
                      <<>>)
           ELSE IF found = {}
           THEN Reply(req, h, 404, [message |-> "Savings entry not found"], <<query>>)
           ELSE Reply(req, h, 200,
                      [success |-> TRUE, data |-> Returned(savings, CHOOSE x \in found : TRUE)],
                      <<query>>)
        /\ StoreUnchanged

\* DELETE /api/savings/:id
SavingsDelete(req) ==
    LET h == "savings.delete"
        id == req.path[1]
        query == ById(id, req.user)
        found == Find(savings, query)
    IN  IF ~IsObjectId(id)
        THEN /\ Reply(req, h, 500, [message |-> "Server error while deleting savings entry"],
                      <<>>)
             /\ StoreUnchanged
        ELSE IF found = {}
        THEN /\ Reply(req, h, 404, [message |-> "Savings entry not found"], <<query>>)
             /\ StoreUnchanged
        ELSE /\ savings' = Without(savings, found)
             /\ Reply(req, h, 200,
                      [success |-> TRUE, message |-> "Savings entry deleted successfully"],
                      <<query>>)
             /\ UNCHANGED <<expenses, nextId, pend, calc, users>>

\* The validators of PUT /api/savings/:id that the model's bodies can fail.
SavingsUpdateErrors(body) ==
    {f \in {"amount", "type"} \cap DOMAIN body :
        CASE f = "amount" -> body[f] < SavingsMinAmount
          [] f = "type" -> body[f] \notin SavingsTypes}

\* PUT /api/savings/:id up to the answer of findOne: the request then holds the
\* document it loaded until its save reaches the store.
SavingsUpdate(req) ==
    LET h == "savings.update"
        errors == SavingsUpdateErrors(req.body)
        id == req.path[1]
        query == ById(id, req.user)
        found == Find(savings, query)
    IN  IF errors /= {}
        THEN Reply(req, h, 400, ValidationFailed(errors), <<>>) /\ StoreUnchanged
        ELSE IF ~IsObjectId(id)
        THEN /\ Reply(req, h, 500, [message |-> "Server error while updating savings entry"],
                      <<>>)
             /\ StoreUnchanged
        ELSE IF found = {}
        THEN /\ Reply(req, h, 404, [message |-> "Savings entry not found"], <<query>>)
             /\ StoreUnchanged
        ELSE /\ Cardinality(pend) < MaxPending
             /\ pend' = pend \cup {[req |-> req, handler |-> h, doc |-> savings[id]]}
             /\ Reply(req, h, 0, Empty, <<query>>)
             /\ UNCHANGED <<savings, expenses, nextId, calc, users>>

\* "Update fields": savings[key] = req.body[key] for the keys of the body that
\* are paths of the schema; an assigned goal replaces the nested object.
SavingsAssign(doc, body) ==
    [user |-> IF Has(body, "user") THEN body["user"] ELSE doc.user,
     amount |-> IF Has(body, "amount") THEN body["amount"] ELSE doc.amount,
     currency |-> IF Has(body, "currency") THEN body["currency"] ELSE doc.currency,
     type |-> IF Has(body, "type") THEN body["type"] ELSE doc.type,
     category |-> IF Has(body, "category") THEN body["category"] ELSE doc.category,
     date |-> IF Has(body, "date") THEN body["date"] ELSE doc.date,
     period |-> IF Has(body, "period") THEN body["period"] ELSE doc.period,
     goal |-> IF Has(body, "goal") THEN GoalOf(body["goal"]) ELSE doc.goal]

\* The paths save() writes ($set): the paths whose value is not the loaded one,
\* and the whole goal when a different goal object was assigned.
Delta(loaded, doc, body, leaves) ==
    LET wholeGoal == Has(body, "goal") /\ body["goal"] /= GoalObject(loaded.goal)
        paths == {k \in leaves : doc[k] /= loaded[k]}
                 \cup (IF "goal" \notin DOMAIN loaded THEN {}
                       ELSE IF wholeGoal THEN {"goal"}
                       ELSE {k \in {"goal.progress", "goal.isCompleted"} :
                                IF k = "goal.progress"
                                THEN doc.goal.progress /= loaded.goal.progress
                                ELSE doc.goal.isCompleted /= loaded.goal.isCompleted})
    IN  [k \in paths |->
            CASE k = "goal" -> doc.goal
              [] k = "goal.progress" -> doc.goal.progress
              [] k = "goal.isCompleted" -> doc.goal.isCompleted
              [] OTHER -> doc[k]]

\* updateOne({ _id }, { $set: delta }) on the stored savings document.
SavingsApply(stored, delta) ==
    LET Leaf(k) == IF Has(delta, k) THEN delta[k] ELSE stored[k]
    IN  [user |-> Leaf("user"),
         amount |-> Leaf("amount"),
         currency |-> Leaf("currency"),
         type |-> Leaf("type"),
         category |-> Leaf("category"),
         date |-> Leaf("date"),
         period |-> Leaf("period"),
         goal |-> IF Has(delta, "goal") THEN delta["goal"]
                  ELSE [targetAmount |-> stored.goal.targetAmount,
                        targetDate |-> stored.goal.targetDate,
                        progress |-> IF Has(delta, "goal.progress")
                                     THEN delta["goal.progress"] ELSE stored.goal.progress,
                        isCompleted |-> IF Has(delta, "goal.isCompleted")
                                        THEN delta["goal.isCompleted"]
                                        ELSE stored.goal.isCompleted]]

\* save() of a loaded document, were a write that matches no document taken
\* for a success.
SaveMatchedAlways(coll, id) == TRUE

\* save() of a loaded document addresses the stored document by _id, with
\* updateOne when paths were modified and with exists when none was, and
\* fails with DocumentNotFoundError when no document matches.
SaveMatched(coll, id) == id \in DOMAIN coll

SavingsLeaves == {"user", "amount", "currency", "type", "category", "date", "period"}

\* PUT /api/savings/:id from the assignment of the fields to the response:
\* savings.save() validates, runs pre('save') and writes the modified paths of
\* the document it holds to the document stored under its _id.
SavingsSave(p) ==
    LET h == "savings.update"
        id == p.req.path[1]
        assigned == SavingsAssign(p.doc, p.req.body)
        doc == updateGoalProgress(assigned)
        delta == Delta(p.doc, doc, p.req.body, SavingsLeaves)
        write == [k \in {"_id"} |-> Eq(id)]
        failed == [message |-> "Server error while updating savings entry"]
        updated == [success |-> TRUE, message |-> "Savings entry updated successfully",
                    data |-> With(doc, "_id", id)]
    IN  /\ p.handler = h
        /\ pend' = pend \ {p}
        /\ UNCHANGED <<expenses, nextId, calc, users>>
        /\ IF ~SavingsSchemaValid(assigned)
           THEN Reply(p.req, h, 500, failed, <<>>) /\ UNCHANGED savings
           ELSE IF ~SaveMatched(savings, id)
           THEN Reply(p.req, h, 500, failed, <<write>>) /\ UNCHANGED savings
           ELSE IF DOMAIN delta = {}
           THEN Reply(p.req, h, 200, updated, <<write>>) /\ UNCHANGED savings
           ELSE /\ savings' = [savings EXCEPT ![id] = SavingsApply(@, delta)]
                /\ Reply(p.req, h, 200, updated, <<write>>)

(***************************************************************************)
(* Aggregation ($match, $group, $sum, $avg, $sort).                        *)
(***************************************************************************)
\* { $group: { _id: '$key', total: { $sum: '$amount' }, count: { $sum: 1 },
\*             average: { $avg: '$amount' } } }
\* over the documents ids: one row for each value of key among them.
GroupBy(coll, ids, key) ==
    { [_id |-> g,
       total |-> SumAmount(coll, {id \in ids : coll[id][key] = g}),
       count |-> Cardinality({id \in ids : coll[id][key] = g}),
       average |-> Rat(SumAmount(coll, {id \in ids : coll[id][key] = g}),
                       Cardinality({id \in ids : coll[id][key] = g}))] :
      g \in {coll[id][key] : id \in ids} }

\* A sort that leaves the rows in any order.
SortByTotalAnyOrder(rows) ==
    { s \in [1..Cardinality(rows) -> rows] : \A i, j \in DOMAIN s : i /= j => s[i] /= s[j] }

\* { $sort: { total: -1 } }: the rows from the largest total to the smallest;
\* rows of equal total come in either order.
SortByTotal(rows) ==
    { s \in [1..Cardinality(rows) -> rows] :
        /\ \A i, j \in DOMAIN s : i /= j => s[i] /= s[j]
        /\ \A i, j \in DOMAIN s : i < j => s[i].total >= s[j].total }

\* { $group: { _id: null, total, count } }: one row, none when nothing matches.
GroupAll(coll, ids) ==
    IF ids = {} THEN <<>>
    ELSE << [total |-> SumAmount(coll, ids), count |-> Cardinality(ids)] >>

\* The $match of the savings statics: both date bounds, whatever they are.
DateRangeMatch(userId, startDate, endDate) ==
    [k \in {"user", "date"} |->
        IF k = "user" THEN Eq(userId)
        ELSE [op \in {"$gte", "$lte"} |-> IF op = "$gte" THEN startDate ELSE endDate]]

\* savingsSchema.statics.getTotalByDateRange
getTotalByDateRange(coll, userId, startDate, endDate) ==
    GroupAll(coll, Find(coll, DateRangeMatch(userId, startDate, endDate)))

\* savingsSchema.statics.getSummaryByPeriod: the outcomes of the aggregation.
getSummaryByPeriod(coll, userId, startDate, endDate) ==
    SortByTotal(GroupBy(coll, Find(coll, DateRangeMatch(userId, startDate, endDate)), "type"))

\* startDate ? new Date(startDate) : null
DateOrNull(q, k) == IF Given(q, k) THEN NewDate(q[k]) ELSE NULL

\* period: { startDate: startDate || null, endDate: endDate || null }
Period(q) == [startDate |-> DateOrNull(q, "startDate"), endDate |-> DateOrNull(q, "endDate")]

\* The query of the summary and analytics handlers: the owner, and the date
\* filter when it has a bound.
DateFilterQuery(user, q) ==
    IF Given(q, "startDate") \/ Given(q, "endDate")
    THEN [k \in {"user", "date"} |->
            IF k = "user" THEN Eq(user) ELSE RangeClause(q, "startDate", "endDate")]
    ELSE [k \in {"user"} |-> Eq(user)]

\* GET /api/savings/summary/period
SavingsSummary(req) ==
    LET h == "savings.summary"
        startDate == DateOrNull(req.query, "startDate")
        endDate == DateOrNull(req.query, "endDate")
        totalResult == getTotalByDateRange(savings, req.user, startDate, endDate)
        total == IF Len(totalResult) > 0 THEN totalResult[1] ELSE [total |-> 0, count |-> 0]
    IN  /\ \E summary \in getSummaryByPeriod(savings, req.user, startDate, endDate) :
              Reply(req, h, 200,
                    [success |-> TRUE,
                     data |-> [summary |-> summary, total |-> total.total,
                               count |-> total.count, period |-> Period(req.query)]],
                    <<DateRangeMatch(req.user, startDate, endDate),
                      DateRangeMatch(req.user, startDate, endDate)>>)
        /\ StoreUnchanged

\* GET /api/savings/summary/period up to the answer of getSummaryByPeriod,
\* the first of its two aggregations.
SavingsSummaryRows(req) ==
    LET h == "savings.summary"
        startDate == DateOrNull(req.query, "startDate")
        endDate == DateOrNull(req.query, "endDate")
    IN  /\ Cardinality(pend) < MaxPending
        /\ \E summary \in getSummaryByPeriod(savings, req.user, startDate, endDate) :
              pend' = pend \cup {[req |-> req, handler |-> h, doc |-> summary]}
        /\ Reply(req, h, 0, Empty, <<DateRangeMatch(req.user, startDate, endDate)>>)
        /\ UNCHANGED <<savings, expenses, nextId, calc, users>>

\* GET /api/savings/summary/period from the answer of getTotalByDateRange,
\* the second aggregation, to the response.
SavingsSummaryTotal(p) ==
    LET h == "savings.summary"
        startDate == DateOrNull(p.req.query, "startDate")
        endDate == DateOrNull(p.req.query, "endDate")
        totalResult == getTotalByDateRange(savings, p.req.user, startDate, endDate)
        total == IF Len(totalResult) > 0 THEN totalResult[1] ELSE [total |-> 0, count |-> 0]
    IN  /\ p.handler = h
        /\ pend' = pend \ {p}
        /\ Reply(p.req, h, 200,
                 [success |-> TRUE,
                  data |-> [summary |-> p.doc, total |-> total.total,
                            count |-> total.count, period |-> Period(p.req.query)]],
                 <<DateRangeMatch(p.req.user, startDate, endDate),
                   DateRangeMatch(p.req.user, startDate, endDate)>>)
        /\ UNCHANGED <<savings, expenses, nextId, calc, users>>

\* The predicate of GET /api/savings/goals
GoalsQuery(user) ==
    [k \in {"user", "goal.targetAmount"} |->
        IF k = "user" THEN Eq(user)
        ELSE [op \in {"$exists", "$gt"} |-> IF op = "$exists" THEN TRUE ELSE 0]]

\* n / d of two numbers: a quotient n/d with d > 0, or what a division by 0
\* gives: Infinity, -Infinity, or NaN for 0 / 0.
JsDivide(n, d) ==
    IF d = 0
    THEN [kind |-> IF n > 0 THEN "Infinity" ELSE IF n < 0 THEN "-Infinity" ELSE "NaN",
          n |-> 0, d |-> 1]
    ELSE [kind |-> "finite", n |-> IF d < 0 THEN 0 - n ELSE n, d |-> IF d < 0 THEN 0 - d ELSE d]

\* x >= y; a comparison with NaN is false.
JsGe(x, y) ==
    CASE x.kind = "NaN" \/ y.kind = "NaN" -> FALSE
      [] y.kind = "-Infinity" \/ x.kind = "Infinity" -> TRUE
      [] y.kind = "Infinity" \/ x.kind = "-Infinity" -> FALSE
      [] OTHER -> x.n * y.d >= y.n * x.d

\* The divisions of isOnTrack for a document: none when goal.targetDate is
\* not set, else amount / targetAmount and
\* (Date.now() - period.startDate) / (goal.targetDate - period.startDate).
OnTrackDivisions(doc, now) ==
    IF doc.goal.targetDate = NULL THEN <<>>
    ELSE << [n |-> doc.amount, d |-> doc.goal.targetAmount],
            [n |-> now - doc.period.startDate,
             d |-> doc.goal.targetDate - doc.period.startDate] >>

\* An isOnTrack that is true whenever some time of the window is left.
IsOnTrackByDeadline(doc, now) ==
    IF doc.goal.targetDate = NULL THEN TRUE ELSE now <= doc.goal.targetDate

\* goal.goal.targetDate ? (amount / targetAmount) >= (elapsed / window) : true
isOnTrack(doc, now) ==
    LET div == OnTrackDivisions(doc, now)
    IN  IF div = <<>> THEN TRUE
        ELSE JsGe(JsDivide(div[1].n, div[1].d), JsDivide(div[2].n, div[2].d))

\* GET /api/savings/goals at the instant now.  calc keeps the divisions the
\* handler evaluated for each row.
SavingsGoals(req, now) ==
    LET h == "savings.goals"
        query == GoalsQuery(req.user)
        goals == Sorted(savings, Find(savings, query), "goal.targetDate", 1)
        goalsWithProgress ==
            [i \in DOMAIN goals |->
                LET goal == savings[goals[i]]
                    object == Returned(savings, goals[i])
                IN  [k \in DOMAIN object
                            \cup {"progressPercentage", "remainingAmount", "isOnTrack"} |->
                        CASE k = "progressPercentage" -> goalProgressPercentage(goal)
                          [] k = "remainingAmount" -> goal.goal.targetAmount - goal.amount
                          [] k = "isOnTrack" -> isOnTrack(goal, now)
                          [] OTHER -> object[k]]]
    IN  /\ Reply(req, h, 200, [success |-> TRUE, data |-> goalsWithProgress], <<query>>)
        /\ calc' = [in |-> [i \in DOMAIN goals |-> OnTrackDivisions(savings[goals[i]], now)],
                    out |-> <<>>]
        /\ UNCHANGED <<savings, expenses, nextId, pend, users>>

\* The query of savingsSchema.statics.getByType
getByType(userId, type, startDate, endDate) ==
    IF startDate /= NULL /\ endDate /= NULL
    THEN [k \in {"user", "type", "date"} |->
            CASE k = "user" -> Eq(userId)
              [] k = "type" -> Eq(type)
              [] k = "date" -> [op \in {"$gte", "$lte"} |->
                                    IF op = "$gte" THEN startDate ELSE endDate]]
    ELSE [k \in {"user", "type"} |-> IF k = "user" THEN Eq(userId) ELSE Eq(type)]

\* const validTypes = [...] of GET /api/savings/type/:type
ValidTypes == SavingsTypes

\* GET /api/savings/type/:type
SavingsByType(req) ==
    LET h == "savings.byType"
        type == req.path[2]
        query == getByType(req.user, type, DateOrNull(req.query, "startDate"),
                           DateOrNull(req.query, "endDate"))
        found == Sorted(savings, Find(savings, query), "date", 0 - 1)
    IN  /\ IF type \notin ValidTypes
           THEN Reply(req, h, 400, [message |-> "Invalid savings type"], <<>>)
           ELSE Reply(req, h, 200,
                      [success |-> TRUE,
                       data |-> [i \in 1..Len(found) |-> Returned(savings, found[i])]],
                      <<query>>)
        /\ StoreUnchanged

\* The predicate of deleteMany in the bulk handlers.
BulkQuery(ids, user) ==
    [k \in {"_id", "user"} |-> IF k = "_id" THEN [op \in {"$in"} |-> ids] ELSE Eq(user)]

\* The validators of the bulk handlers: a non-empty array of ObjectIds.
BulkErrors(body, key) ==
    {f \in {key} : ~(Has(body, key) /\ body[key] /= {} /\ \A id \in body[key] : IsObjectId(id))}

\* DELETE /api/savings/bulk
SavingsBulkDelete(req) ==
    LET h == "savings.bulkDelete"
        errors == BulkErrors(req.body, "savingsIds")
        query == BulkQuery(req.body["savingsIds"], req.user)
        deleted == Find(savings, query)
    IN  IF errors /= {}
        THEN Reply(req, h, 400, ValidationFailed(errors), <<>>) /\ StoreUnchanged
        ELSE /\ savings' = Without(savings, deleted)
             /\ Reply(req, h, 200,
                      [success |-> TRUE, data |-> [deletedCount |-> Cardinality(deleted)]],
                      <<query>>)
             /\ UNCHANGED <<expenses, nextId, pend, calc, users>>

\* GET /api/savings/categories
SavingsCategories(req) ==
    /\ Reply(req, "savings.categories", 200,
             [success |-> TRUE, data |-> {"General Savings", "Other"}], <<>>)
    /\ StoreUnchanged

(***************************************************************************)
(* The expenses router (src/routes/savings.js, lines 525-990).             *)
(***************************************************************************)
\* The validators of POST /api/expenses that the model's bodies can fail.
ExpenseCreateErrors(body) ==
    {f \in {"amount", "category"} :
        CASE f = "amount" -> ~(Has(body, "amount") /\ body["amount"] >= ExpenseMinAmount)
          [] f = "category" -> ~(Has(body, "category") /\ body["category"] \in ExpenseCategories)}

\* The schema's validators on an expense document.
ExpenseSchemaValid(doc) ==
    /\ doc.amount >= ExpenseMinAmount
    /\ doc.category \in ExpenseCategories
    /\ doc.currency \in Currencies
    /\ doc.paymentMethod \in PaymentMethods

\* new Expense(expenseData): the schema paths of the data, defaults for the rest.
NewExpense(data, now) ==
    [user |-> data["user"],
     amount |-> data["amount"],
     currency |-> IF Has(data, "currency") THEN data["currency"] ELSE "UGX",
     category |-> data["category"],
     date |-> IF Has(data, "date") THEN data["date"] ELSE now,
     paymentMethod |-> IF Has(data, "paymentMethod") THEN data["paymentMethod"] ELSE "Cash"]

\* POST /api/expenses
ExpenseCreate(req, now) ==
    LET h == "expenses.create"
        errors == ExpenseCreateErrors(req.body)
        expenseData == CreateData(req.body, req.user)
        doc == NewExpense(expenseData, now)
        id == ToString(nextId)
    IN  IF errors /= {}
        THEN Reply(req, h, 400, ValidationFailed(errors), <<>>) /\ StoreUnchanged
        ELSE IF ~ExpenseSchemaValid(doc)
        THEN /\ Reply(req, h, 500, [message |-> "Server error while creating expense"], <<>>)
             /\ StoreUnchanged
        ELSE /\ nextId <= MaxId
             /\ expenses' = With(expenses, id, doc)
             /\ nextId' = nextId + 1
             /\ Reply(req, h, 201,
                      [success |-> TRUE, message |-> "Expense created successfully",
                       data |-> With(doc, "_id", id)], <<>>)
             /\ UNCHANGED <<savings, pend, calc, users>>

\* The predicate of GET /api/expenses
ExpenseListQuery(user, q) == ListQuery(user, q, {"category", "paymentMethod"})

\* GET /api/expenses
ExpenseList(req) ==
    LET h == "expenses.list"
        errors == ListErrors(req.query, {"date", "amount", "category", "createdAt"})
        query == ExpenseListQuery(req.user, req.query)
    IN  /\ IF errors /= {}
           THEN Reply(req, h, 400, ValidationFailed(errors), <<>>)
           ELSE Reply(req, h, 200, ListBody(expenses, query, req.query), <<query, query>>)
        /\ StoreUnchanged

\* GET /api/expenses/:id
ExpenseGetById(req) ==
    LET h == "expenses.getById"
        id == req.path[1]
        query == ById(id, req.user)
        found == Find(expenses, query)
    IN  /\ IF ~IsObjectId(id)
           THEN Reply(req, h, 500, [message |-> "Server error while fetching expense"], <<>>)
           ELSE IF found = {}
           THEN Reply(req, h, 404, [message |-> "Expense not found"], <<query>>)
           ELSE Reply(req, h, 200,
                      [success |-> TRUE, data |-> Returned(expenses, CHOOSE x \in found : TRUE)],
                      <<query>>)
        /\ StoreUnchanged

\* The validators of PUT /api/expenses/:id, were the amount not validated.
ExpenseUpdateErrorsButAmount(body) ==
    {f \in {"category"} \cap DOMAIN body : body[f] \notin ExpenseCategories}

\* The validators of PUT /api/expenses/:id that the model's bodies can fail.
ExpenseUpdateErrors(body) ==
    {f \in {"amount", "category"} \cap DOMAIN body :
        CASE f = "amount" -> body[f] < ExpenseMinAmount
          [] f = "category" -> body[f] \notin ExpenseCategories}

\* PUT /api/expenses/:id up to the answer of findOne.
ExpenseUpdate(req) ==
    LET h == "expenses.update"
        errors == ExpenseUpdateErrors(req.body)
        id == req.path[1]
        query == ById(id, req.user)
        found == Find(expenses, query)
    IN  IF errors /= {}
        THEN Reply(req, h, 400, ValidationFailed(errors), <<>>) /\ StoreUnchanged
        ELSE IF ~IsObjectId(id)
        THEN /\ Reply(req, h, 500, [message |-> "Server error while updating expense"], <<>>)
             /\ StoreUnchanged
        ELSE IF found = {}
        THEN /\ Reply(req, h, 404, [message |-> "Expense not found"], <<query>>)
             /\ StoreUnchanged
        ELSE /\ Cardinality(pend) < MaxPending
             /\ pend' = pend \cup {[req |-> req, handler |-> h, doc |-> expenses[id]]}
             /\ Reply(req, h, 0, Empty, <<query>>)
             /\ UNCHANGED <<savings, expenses, nextId, calc, users>>

ExpenseLeaves == {"user", "amount", "currency", "category", "date", "paymentMethod"}

\* "Update fields": expense[key] = req.body[key] for the paths of the schema.
ExpenseAssign(doc, body) ==
    [k \in ExpenseLeaves |-> IF Has(body, k) THEN body[k] ELSE doc[k]]

\* updateOne({ _id }, { $set: delta }) on the stored expense document.
ExpenseApply(stored, delta) ==
    [k \in ExpenseLeaves |-> IF Has(delta, k) THEN delta[k] ELSE stored[k]]

\* PUT /api/expenses/:id from the assignment of the fields to the response.
ExpenseSave(p) ==
    LET h == "expenses.update"
        id == p.req.path[1]
        doc == ExpenseAssign(p.doc, p.req.body)
        delta == Delta(p.doc, doc, p.req.body, ExpenseLeaves)
        write == [k \in {"_id"} |-> Eq(id)]
        failed == [message |-> "Server error while updating expense"]
        updated == [success |-> TRUE, message |-> "Expense updated successfully",
                    data |-> With(doc, "_id", id)]
    IN  /\ p.handler = h
        /\ pend' = pend \ {p}
        /\ UNCHANGED <<savings, nextId, calc, users>>
        /\ IF ~ExpenseSchemaValid(doc)
           THEN Reply(p.req, h, 500, failed, <<>>) /\ UNCHANGED expenses
           ELSE IF ~SaveMatched(expenses, id)
           THEN Reply(p.req, h, 500, failed, <<write>>) /\ UNCHANGED expenses
           ELSE IF DOMAIN delta = {}
           THEN Reply(p.req, h, 200, updated, <<write>>) /\ UNCHANGED expenses
           ELSE /\ expenses' = [expenses EXCEPT ![id] = ExpenseApply(@, delta)]
                /\ Reply(p.req, h, 200, updated, <<write>>)

\* DELETE /api/expenses/:id
ExpenseDelete(req) ==
    LET h == "expenses.delete"
        id == req.path[1]
        query == ById(id, req.user)
        found == Find(expenses, query)
    IN  IF ~IsObjectId(id)
        THEN /\ Reply(req, h, 500, [message |-> "Server error while deleting expense"], <<>>)
             /\ StoreUnchanged
        ELSE IF found = {}
        THEN /\ Reply(req, h, 404, [message |-> "Expense not found"], <<query>>)
             /\ StoreUnchanged
        ELSE /\ expenses' = Without(expenses, found)
             /\ Reply(req, h, 200,
                      [success |-> TRUE, message |-> "Expense deleted successfully"],
                      <<query>>)
             /\ UNCHANGED <<savings, nextId, pend, calc, users>>

\* GET /api/expenses/summary/summary
ExpenseSummary(req) ==
    LET h == "expenses.summary"
        query == DateFilterQuery(req.user, req.query)
        totalResult == GroupAll(expenses, Find(expenses, query))
        total == IF Len(totalResult) > 0 THEN totalResult[1] ELSE [total |-> 0, count |-> 0]
    IN  /\ \E summary \in SortByTotal(GroupBy(expenses, Find(expenses, query), "category")) :
              Reply(req, h, 200,
                    [success |-> TRUE,
                     data |-> [summary |-> summary, total |-> total.total,
                               count |-> total.count, period |-> Period(req.query)]],
                    <<query, query>>)
        /\ StoreUnchanged

\* GET /api/expenses/summary/summary up to the answer of the aggregation by
\* category, the first of its two aggregations.
ExpenseSummaryRows(req) ==
    LET h == "expenses.summary"
        query == DateFilterQuery(req.user, req.query)
    IN  /\ Cardinality(pend) < MaxPending
        /\ \E summary \in SortByTotal(GroupBy(expenses, Find(expenses, query), "category")) :
              pend' = pend \cup {[req |-> req, handler |-> h, doc |-> summary]}
        /\ Reply(req, h, 0, Empty, <<query>>)
        /\ UNCHANGED <<savings, expenses, nextId, calc, users>>

\* GET /api/expenses/summary/summary from the answer of the aggregation of
\* the grand total, the second one, to the response.
ExpenseSummaryTotal(p) ==
    LET h == "expenses.summary"
        query == DateFilterQuery(p.req.user, p.req.query)
        totalResult == GroupAll(expenses, Find(expenses, query))
        total == IF Len(totalResult) > 0 THEN totalResult[1] ELSE [total |-> 0, count |-> 0]
    IN  /\ p.handler = h
        /\ pend' = pend \ {p}
        /\ Reply(p.req, h, 200,
                 [success |-> TRUE,
                  data |-> [summary |-> p.doc, total |-> total.total,
                            count |-> total.count, period |-> Period(p.req.query)]],
                 <<query, query>>)
        /\ UNCHANGED <<savings, expenses, nextId, calc, users>>

\* DELETE /api/expenses/bulk
ExpenseBulkDelete(req) ==
    LET h == "expenses.bulkDelete"
        errors == BulkErrors(req.body, "expenseIds")
        query == BulkQuery(req.body["expenseIds"], req.user)
        deleted == Find(expenses, query)
    IN  IF errors /= {}
        THEN Reply(req, h, 400, ValidationFailed(errors), <<>>) /\ StoreUnchanged
        ELSE /\ expenses' = Without(expenses, deleted)
             /\ Reply(req, h, 200,
                      [success |-> TRUE, data |-> [deletedCount |-> Cardinality(deleted)]],
                      <<query>>)
             /\ UNCHANGED <<savings, nextId, pend, calc, users>>

\* GET /api/expenses/categories
ExpenseCategoriesList(req) ==
    /\ Reply(req, "expenses.categories", 200,
             [success |-> TRUE, data |-> ExpenseCategories], <<>>)
    /\ StoreUnchanged

(***************************************************************************)
(* The analytics router (src/unnamed/part_000, lines 334-887).             *)
(***************************************************************************)
\* The query of the analytics handlers: the owner, the date filter when it
\* has a bound, and the currency when one is given.
AnalyticsQuery(user, q) ==
    LET dated == DateFilterQuery(user, q)
    IN  IF Given(q, "currency") THEN With(dated, "currency", Eq(q["currency"])) ELSE dated

\* period: { startDate: startDate || null, endDate: endDate || null }, the
\* strings of the query.
RawPeriod(q) ==
    [startDate |-> IF Given(q, "startDate") THEN q["startDate"] ELSE NULL,
     endDate |-> IF Given(q, "endDate") THEN q["endDate"] ELSE NULL]

\* A JSON value that is a string, and one that is a number.
JsString(text) == [string |-> text]

JsNumber(n) == [number |-> n]

\* ((part / whole) * 100).toFixed(2): the quotient in hundredths, rounded to
\* the nearest (a half goes up), written with two decimals.  A string.
PercentToFixed(part, whole) ==
    LET h == (2 * part * 10000 + whole) \div (2 * whole)
    IN  ToString(h \div 100) \o "." \o ToString((h % 100) \div 10) \o ToString(h % 10)

\* whole > 0 ? ((part / whole) * 100).toFixed(2) : 0
PercentOrZero(part, whole) ==
    IF whole > 0 THEN JsString(PercentToFixed(part, whole)) ELSE JsNumber(0)

\* rows.reduce((sum, item) => sum + item[field], 0)
RECURSIVE Reduce(_, _)
Reduce(rows, field) ==
    IF rows = <<>> THEN 0
    ELSE Reduce(SubSeq(rows, 1, Len(rows) - 1), field) + rows[Len(rows)][field]

\* The pie chart of a collection grouped by key, its rows named label.  The
\* color of a row, a constant of its key, is left out.
PieChart(req, h, coll, key, label, totalName) ==
    LET query == AnalyticsQuery(req.user, req.query)
    IN  /\ \E pieChartData \in SortByTotal(GroupBy(coll, Find(coll, query), key)) :
              LET total == Reduce(pieChartData, "total")
                  formattedData ==
                      [i \in DOMAIN pieChartData |->
                          LET item == pieChartData[i]
                          IN  [k \in {label, "amount", "count", "average", "percentage"} |->
                                  CASE k = label -> item._id
                                    [] k = "amount" -> item.total
                                    [] k = "count" -> item.count
                                    [] k = "average" -> item.average
                                    [] OTHER -> PercentOrZero(item.total, total)]]
              IN  Reply(req, h, 200,
                        [success |-> TRUE,
                         data |-> [k \in {"pieChartData", totalName, "totalCount", "period"} |->
                                      CASE k = "pieChartData" -> formattedData
                                        [] k = totalName -> total
                                        [] k = "totalCount" -> Reduce(pieChartData, "count")
                                        [] OTHER -> RawPeriod(req.query)]],
                        <<query>>)
        /\ StoreUnchanged

\* GET /api/analytics/expenses/pie-chart
ExpensePieChart(req) ==
    PieChart(req, "analytics.expensesPieChart", expenses, "category", "category", "totalExpenses")

\* GET /api/analytics/savings/pie-chart
SavingsPieChart(req) ==
    PieChart(req, "analytics.savingsPieChart", savings, "type", "type", "totalSavings")

\* { $group: { _id, total } }, { $sort: { total: -1 } }, { $limit: 5 }
TopRows(rows) ==
    { [i \in 1..(IF Len(s) < TopLimit THEN Len(s) ELSE TopLimit) |->
          [_id |-> s[i]._id, total |-> s[i].total]] : s \in SortByTotal(rows) }

\* GET /api/analytics/overview
AnalyticsOverview(req) ==
    LET h == "analytics.overview"
        baseQuery == AnalyticsQuery(req.user, req.query)
        expensesData == GroupAll(expenses, Find(expenses, baseQuery))
        savingsData == GroupAll(savings, Find(savings, baseQuery))
        totalExpenses == IF Len(expensesData) > 0 THEN expensesData[1].total ELSE 0
        totalSavings == IF Len(savingsData) > 0 THEN savingsData[1].total ELSE 0
    IN  /\ \E topExpenseCategories \in
                  TopRows(GroupBy(expenses, Find(expenses, baseQuery), "category")),
              topSavingsTypes \in TopRows(GroupBy(savings, Find(savings, baseQuery), "type")) :
              Reply(req, h, 200,
                    [success |-> TRUE,
                     data |-> [overview |->
                                  [totalExpenses |-> totalExpenses,
                                   totalSavings |-> totalSavings,
                                   netWorth |-> totalSavings - totalExpenses,
                                   savingsRate |-> PercentOrZero(totalSavings, totalExpenses)],
                               topExpenseCategories |-> topExpenseCategories,
                               topSavingsTypes |-> topSavingsTypes,
                               period |-> RawPeriod(req.query)]],
                    <<baseQuery, baseQuery, baseQuery, baseQuery>>)
        /\ StoreUnchanged

\* The calendar: instant 1 is in January of EpochYear and an instant is one
\* month long; the server's local time is UTC, so that new Date(year, m, d)
\* and $month agree on the month of an instant.
EpochYear == MinYear

\* date.getFullYear()
FullYear(t) == EpochYear + ((t - 1) \div MonthsOfYear)

\* { $month: '$date' }
Month(t) == ((t - 1) % MonthsOfYear) + 1

\* new Date(year, month - 1, ...)
DateOf(year, month) == (year - EpochYear) * MonthsOfYear + month

\* toLocaleDateString('en-US', { month: 'long' })
MonthNames ==
    << "January", "February", "March", "April", "May", "June", "July", "August",
       "September", "October", "November", "December" >>

\* { $group: { _id: { month: { $month: '$date' } }, total, count } },
\* { $sort: { '_id.month': 1 } } over the documents ids.
GroupByMonth(coll, ids) ==
    LET rows == { [_id |-> [month |-> m],
                   total |-> SumAmount(coll, {id \in ids : Month(coll[id].date) = m}),
                   count |-> Cardinality({id \in ids : Month(coll[id].date) = m})] :
                  m \in {Month(coll[id].date) : id \in ids} }
    IN  CHOOSE s \in [1..Cardinality(rows) -> rows] :
            \A i, j \in DOMAIN s : i < j => s[i]._id.month < s[j]._id.month

\* rows.find(item => item._id.month === month), then data ? data.total : 0
MonthTotal(rows, month) ==
    LET hits == {i \in DOMAIN rows : rows[i]._id.month = month}
    IN  IF hits = {} THEN 0 ELSE rows[CHOOSE i \in hits : \A j \in hits : i <= j].total

\* A loop that pushes an entry only for the months that have a row.
MonthlyDataSparse(monthlyExpenses, monthlySavings) ==
    LET months == {m \in 1..MonthsOfYear :
                      MonthTotal(monthlyExpenses, m) + MonthTotal(monthlySavings, m) > 0}
        nth(i) == CHOOSE m \in months : Cardinality({x \in months : x < m}) = i - 1
    IN  [i \in 1..Cardinality(months) |->
            [month |-> nth(i), monthName |-> MonthNames[nth(i)],
             expenses |-> MonthTotal(monthlyExpenses, nth(i)),
             savings |-> MonthTotal(monthlySavings, nth(i)),
             netWorth |-> MonthTotal(monthlySavings, nth(i))
                          - MonthTotal(monthlyExpenses, nth(i))]]

\* for (let month = 1; month <= 12; month++) monthlyData.push({ ... })
MonthlyData(monthlyExpenses, monthlySavings) ==
    [month \in 1..MonthsOfYear |->
        [month |-> month, monthName |-> MonthNames[month],
         expenses |-> MonthTotal(monthlyExpenses, month),
         savings |-> MonthTotal(monthlySavings, month),
         netWorth |-> MonthTotal(monthlySavings, month) - MonthTotal(monthlyExpenses, month)]]

\* An average over the months that have an amount.
MonthlyAverageOfNonEmpty(monthlyData, field) ==
    LET n == Cardinality({i \in DOMAIN monthlyData : monthlyData[i][field] > 0})
    IN  Rat(Reduce(monthlyData, field), IF n = 0 THEN 1 ELSE n)

\* monthlyData.reduce((sum, month) => sum + month[field], 0) / 12
MonthlyAverage(monthlyData, field) == Rat(Reduce(monthlyData, field), MonthsOfYear)

\* GET /api/analytics/trends/monthly
MonthlyTrends(req, now) ==
    LET h == "analytics.monthlyTrends"
        q == req.query
        errors == {k \in {"year"} : Has(q, k) /\ ~IsIntRange(q[k], MinYear, MaxYear)}
        \* year = new Date().getFullYear() by default; Number(year), parseInt(year)
        year == IF Has(q, "year") THEN ParseInt(q["year"]) ELSE FullYear(now)
        dated == DateRangeMatch(req.user, DateOf(year, 1), DateOf(year, MonthsOfYear))
        baseQuery == IF Given(q, "currency") THEN With(dated, "currency", Eq(q["currency"]))
                     ELSE dated
        monthlyData == MonthlyData(GroupByMonth(expenses, Find(expenses, baseQuery)),
                                   GroupByMonth(savings, Find(savings, baseQuery)))
    IN  /\ IF errors /= {}
           THEN Reply(req, h, 400, ValidationFailed(errors), <<>>)
           ELSE Reply(req, h, 200,
                      [success |-> TRUE,
                       data |-> [year |-> year,
                                 monthlyData |-> monthlyData,
                                 totalExpenses |-> Reduce(monthlyData, "expenses"),
                                 totalSavings |-> Reduce(monthlyData, "savings"),
                                 averageMonthlyExpenses |->
                                     MonthlyAverage(monthlyData, "expenses"),
                                 averageMonthlySavings |->
                                     MonthlyAverage(monthlyData, "savings")]],
                      <<baseQuery, baseQuery>>)
        /\ StoreUnchanged

(***************************************************************************)
(* The application (src/server.js): a request goes to the router mounted   *)
(* on its prefix and to the handler the router dispatches it to.           *)
(***************************************************************************)
(***************************************************************************)
(* The auth middleware (middleware/auth.js): a request without a token is  *)
(* answered by the middleware, which calls no handler and no store.        *)
(***************************************************************************)
Unauthorized(req) ==
    /\ Reply(req, "protect", 401, [message |-> "Not authorized, no token"], <<>>)
    /\ StoreUnchanged

(***************************************************************************)
(* The auth router (src/unnamed/part_000, lines 1-334) and the user router *)
(* (src/unnamed/part_001).                                                 *)
(***************************************************************************)
RecordsUnchanged == UNCHANGED <<savings, expenses, nextId, pend, calc>>

\* validator.js isEmail: a top-level domain of two characters or more.
IsEmail(s) == EmailShape(s, MinTldLength, NULL)

\* isLength({ min, max }) on a field: an absent field is the empty string.
IsLength(body, f, min, max) ==
    LET len == IF Has(body, f) THEN Len(body[f]) ELSE 0
    IN  len >= min /\ (max = NULL \/ len <= max)

\* trim() on the field f of the body, where it is present.
Trimmed(body, f) == IF Has(body, f) THEN With(body, f, Trim(body[f])) ELSE body

\* The validators of POST /api/auth/register, were lastName not validated.
RegisterErrorsButLastName(body) ==
    {f \in {"email", "password", "firstName"} :
        CASE f = "email" -> ~(Has(body, f) /\ IsEmail(body[f]))
          [] f = "password" -> ~IsLength(body, f, MinPasswordLength, NULL)
          [] f = "firstName" -> ~IsLength(Trimmed(body, f), f, 1, MaxNameLength)}

\* The validators of POST /api/auth/register.
RegisterErrors(body) ==
    {f \in {"email", "password", "firstName", "lastName"} :
        CASE f = "email" -> ~(Has(body, f) /\ IsEmail(body[f]))
          [] f = "password" -> ~IsLength(body, f, MinPasswordLength, NULL)
          [] OTHER -> ~IsLength(Trimmed(body, f), f, 1, MaxNameLength)}

\* The validators of POST /api/auth/login.
LoginErrors(body) ==
    {f \in {"email", "password"} :
        CASE f = "email" -> ~(Has(body, f) /\ IsEmail(body[f]))
          [] f = "password" -> ~IsLength(body, f, 1, NULL)}

\* req.body after the sanitizers of a chain whose validators passed:
\* normalizeEmail() on the email, trim() on the names.
Sanitized(body) ==
    LET named == Trimmed(Trimmed(body, "firstName"), "lastName")
    IN  IF Has(body, "email") THEN With(named, "email", LowerCase(body["email"])) ELSE named

\* { email, password, firstName, lastName, currency } of the body: the keys
\* that are defined.
UserData(body) ==
    [f \in {"email", "password", "firstName", "lastName", "currency"} \cap DOMAIN body
        |-> body[f]]

\* User.findOne({ email })
FindByEmail(email) == {u \in DOMAIN users : users[u].email = email}

\* user._id of the next user created.
NewUserId == "u" \o ToString(Cardinality(DOMAIN users) + 1)

\* generateToken(id): a token that carries the id.
generateToken(id) == [id |-> id]

\* The data of the responses of register and login.
UserDataOf(id) ==
    [_id |-> id, email |-> users'[id].email, firstName |-> users'[id].firstName,
     lastName |-> users'[id].lastName, currency |-> users'[id].currency]

\* POST /api/auth/register
AuthRegister(req, now) ==
    LET h == "auth.register"
        errors == RegisterErrors(req.body)
        body == Sanitized(req.body)
        data == UserData(body)
        id == NewUserId
    IN  /\ IF errors /= {}
           THEN /\ Reply(req, h, 400, ValidationFailed(errors), <<>>)
                /\ users' = users
           ELSE IF FindByEmail(body["email"]) /= {}
           THEN /\ Reply(req, h, 400, [message |-> "User already exists with this email"],
                         <<[email |-> body["email"]]>>)
                /\ users' = users
           ELSE IF ~UserSchemaValid(data)
           THEN /\ Reply(req, h, 500, [message |-> "Server error during registration"],
                         <<[email |-> body["email"]]>>)
                /\ users' = users
           ELSE /\ users' = With(users, id, NewUser(data, now))
                /\ Reply(req, h, 201,
                         [success |-> TRUE, message |-> "User registered successfully",
                          data |-> UserDataOf(id), token |-> generateToken(id)],
                         <<[email |-> body["email"]]>>)
        /\ RecordsUnchanged

\* POST /api/auth/login
AuthLogin(req, now) ==
    LET h == "auth.login"
        errors == LoginErrors(req.body)
        body == Sanitized(req.body)
        query == <<[email |-> body["email"]]>>
        found == FindByEmail(body["email"])
        id == CHOOSE u \in found : TRUE
        invalid == [message |-> "Invalid credentials"]
    IN  /\ IF errors /= {}
           THEN /\ Reply(req, h, 400, ValidationFailed(errors), <<>>)
                /\ users' = users
           ELSE IF found = {}
           THEN Reply(req, h, 401, invalid, query) /\ users' = users
           ELSE IF ~users[id].isActive
           THEN /\ Reply(req, h, 401, [message |-> "Account is deactivated"], query)
                /\ users' = users
           ELSE IF ~comparePassword(users[id], body["password"])
           THEN Reply(req, h, 401, invalid, query) /\ users' = users
           ELSE /\ users' = [users EXCEPT ![id].lastLogin = now]
                /\ Reply(req, h, 200,
                         [success |-> TRUE, message |-> "Login successful",
                          data |-> With(UserDataOf(id), "lastLogin", now),
                          token |-> generateToken(id)],
                         query)
        /\ RecordsUnchanged

\* getPublicProfile(): the document without its password.
getPublicProfile(user) == [f \in DOMAIN user \ {"password"} |-> user[f]]

\* GET /api/user/profile
UserGetProfile(req) ==
    LET h == "user.getProfile"
    IN  /\ IF req.user = NoToken
           THEN Reply(req, h, 500, [message |-> "Server error while fetching profile"], <<>>)
           ELSE IF req.user \notin DOMAIN users
           THEN Reply(req, h, 404, [message |-> "User not found"], <<[_id |-> req.user]>>)
           ELSE Reply(req, h, 200,
                      [success |-> TRUE, data |-> getPublicProfile(users[req.user])],
                      <<[_id |-> req.user]>>)
        /\ StoreUnchanged

\* DELETE /api/user/account
UserDeleteAccount(req) ==
    LET h == "user.deleteAccount"
        query == <<[_id |-> req.user]>>
    IN  /\ IF ~IsLength(req.body, "password", 1, NULL)
           THEN /\ Reply(req, h, 400, ValidationFailed({"password"}), <<>>)
                /\ users' = users
           ELSE IF req.user \notin DOMAIN users
           THEN Reply(req, h, 404, [message |-> "User not found"], query) /\ users' = users
           ELSE IF ~comparePassword(users[req.user], req.body["password"])
           THEN /\ Reply(req, h, 400, [message |-> "Password is incorrect"], query)
                /\ users' = users
           ELSE /\ users' = [users EXCEPT ![req.user].isActive = FALSE]
                /\ Reply(req, h, 200,
                         [success |-> TRUE, message |-> "Account deactivated successfully"],
                         query)
        /\ RecordsUnchanged

\* user.save(), were every path of the loaded document written back.
UserSaveWhole(id, doc, modified) == [users EXCEPT ![id] = doc]

\* user.save() of a loaded document: the update sets the modified paths of
\* the stored document and leaves its other paths as they are.
UserSave(id, doc, modified) ==
    [users EXCEPT ![id] = [f \in DOMAIN @ |-> IF f \in modified THEN doc[f] ELSE @[f]]]

\* The currencies that PUT /api/user/profile accepts: the list of the route
\* lacks UGX.
ProfileCurrencies == Currencies \ {"UGX"}

\* fieldsToUpdate, as far as the user documents of the model go.
ProfileFields == {"firstName", "lastName", "currency"}

\* The validators of PUT /api/user/profile: every field is optional.
ProfileErrors(body) ==
    {f \in ProfileFields \cap DOMAIN body :
        IF f = "currency" THEN body[f] \notin ProfileCurrencies
        ELSE ~IsLength(Trimmed(body, f), f, 1, MaxNameLength)}

\* PUT /api/user/profile up to the answer of User.findById.
UserUpdateProfile(req) ==
    LET h == "user.updateProfile"
        errors == ProfileErrors(req.body)
        query == <<[_id |-> req.user]>>
    IN  IF errors /= {}
        THEN Reply(req, h, 400, ValidationFailed(errors), <<>>) /\ StoreUnchanged
        ELSE IF req.user \notin DOMAIN users
        THEN Reply(req, h, 404, [message |-> "User not found"], query) /\ StoreUnchanged
        ELSE /\ Cardinality(pend) < MaxPending
             /\ pend' = pend \cup {[req |-> req, handler |-> h, doc |-> users[req.user]]}
             /\ Reply(req, h, 0, Empty, query)
             /\ UNCHANGED <<savings, expenses, nextId, calc, users>>

\* PUT /api/user/profile from the assignment of the fields to the response:
\* the fields of fieldsToUpdate that the body carries are set on the loaded
\* document, which is saved and returned.
UserProfileSave(p) ==
    LET h == "user.updateProfile"
        id == p.req.user
        body == Trimmed(Trimmed(p.req.body, "firstName"), "lastName")
        modified == ProfileFields \cap DOMAIN body
        doc == [f \in DOMAIN p.doc |-> IF f \in modified THEN body[f] ELSE p.doc[f]]
    IN  /\ p.handler = h
        /\ pend' = pend \ {p}
        /\ users' = UserSave(id, doc, modified)
        /\ Reply(p.req, h, 200,
                 [success |-> TRUE, message |-> "Profile updated successfully",
                  data |-> getPublicProfile(doc)],
                 <<[_id |-> id]>>)
        /\ UNCHANGED <<savings, expenses, nextId, calc>>

\* PUT /api/user/notifications: the boolean values of the body are set on
\* the nested object; a key that is no path of the schema is not stored.
UserUpdateNotifications(req) ==
    LET h == "user.updateNotifications"
        query == <<[_id |-> req.user]>>
        given == req.body["notificationSettings"]
        doc == [users[req.user] EXCEPT !.notificationSettings =
                   [k \in NotificationKeys |-> IF k \in DOMAIN given THEN given[k] ELSE @[k]]]
    IN  /\ IF ~Has(req.body, "notificationSettings")
           THEN /\ Reply(req, h, 400, ValidationFailed({"notificationSettings"}), <<>>)
                /\ users' = users
           ELSE IF req.user \notin DOMAIN users
           THEN Reply(req, h, 404, [message |-> "User not found"], query) /\ users' = users
           ELSE /\ users' = UserSave(req.user, doc, {"notificationSettings"})
                /\ Reply(req, h, 200,
                         [success |-> TRUE,
                          message |-> "Notification settings updated successfully",
                          data |-> [notificationSettings |-> doc.notificationSettings]],
                         query)
        /\ RecordsUnchanged

\* PUT /api/user/change-password
UserChangePassword(req) ==
    LET h == "user.changePassword"
        query == <<[_id |-> req.user]>>
        errors == {f \in {"currentPassword", "newPassword"} :
                      ~IsLength(req.body, f,
                                IF f = "newPassword" THEN MinPasswordLength ELSE 1, NULL)}
        doc == [users[req.user] EXCEPT !.password = Hash(req.body["newPassword"])]
    IN  /\ IF errors /= {}
           THEN Reply(req, h, 400, ValidationFailed(errors), <<>>) /\ users' = users
           ELSE IF req.user \notin DOMAIN users
           THEN Reply(req, h, 404, [message |-> "User not found"], query) /\ users' = users
           ELSE IF ~comparePassword(users[req.user], req.body["currentPassword"])
           THEN /\ Reply(req, h, 400, [message |-> "Current password is incorrect"], query)
                /\ users' = users
           ELSE /\ users' = UserSave(req.user, doc, {"password"})
                /\ Reply(req, h, 200,
                         [success |-> TRUE, message |-> "Password changed successfully"],
                         query)
        /\ RecordsUnchanged

\* app.use('*', ...): the 404 handler.
RouteNotFound(req) ==
    /\ Reply(req, "notFound", 404, [message |-> "Route not found"], <<>>)
    /\ StoreUnchanged

\* One request, served at the instant now.
Serve(req, now) ==
    LET h == Dispatch(req)
    IN  IF req.router \in ProtectedRouters /\ req.user = NoToken THEN Unauthorized(req)
        ELSE
        CASE h = "savings.create" -> SavingsCreate(req, now)
          [] h = "savings.list" -> SavingsList(req)
          [] h = "savings.getById" -> SavingsGetById(req)
          [] h = "savings.update" -> SavingsUpdate(req)
          [] h = "savings.delete" -> SavingsDelete(req)
          [] h = "savings.summary" -> SavingsSummary(req)
          [] h = "savings.goals" -> SavingsGoals(req, now)
          [] h = "savings.byType" -> SavingsByType(req)
          [] h = "savings.bulkDelete" -> SavingsBulkDelete(req)
          [] h = "savings.categories" -> SavingsCategories(req)
          [] h = "expenses.create" -> ExpenseCreate(req, now)
          [] h = "expenses.list" -> ExpenseList(req)
          [] h = "expenses.getById" -> ExpenseGetById(req)
          [] h = "expenses.update" -> ExpenseUpdate(req)
          [] h = "expenses.delete" -> ExpenseDelete(req)
          [] h = "expenses.summary" -> ExpenseSummary(req)
          [] h = "expenses.bulkDelete" -> ExpenseBulkDelete(req)
          [] h = "expenses.categories" -> ExpenseCategoriesList(req)
          [] h = "analytics.expensesPieChart" -> ExpensePieChart(req)
          [] h = "analytics.savingsPieChart" -> SavingsPieChart(req)
          [] h = "analytics.overview" -> AnalyticsOverview(req)
          [] h = "analytics.monthlyTrends" -> MonthlyTrends(req, now)
          [] h = "auth.register" -> AuthRegister(req, now)
          [] h = "auth.login" -> AuthLogin(req, now)
          [] h = "user.getProfile" -> UserGetProfile(req)
          [] h = "user.updateProfile" -> UserUpdateProfile(req)
          [] h = "user.updateNotifications" -> UserUpdateNotifications(req)
          [] h = "user.changePassword" -> UserChangePassword(req)
          [] h = "user.deleteAccount" -> UserDeleteAccount(req)
          [] OTHER -> RouteNotFound(req)

(***************************************************************************)
(* The initial state: an empty store, no request in flight.                *)
(***************************************************************************)
NoStep ==
    [req |-> Req("none", "NONE", <<>>, "nobody", Empty, Empty), handler |-> "none",
     status |-> 0, body |-> Empty, sent |-> <<>>]

Idle == [in |-> <<>>, out |-> <<>>]

Init ==
    /\ users = SeedUsers
    /\ savings = Empty
    /\ expenses = Empty
    /\ nextId = 1
    /\ pend = {}
    /\ resp = NoStep
    /\ calc = Idle

(***************************************************************************)
(* Spec: the API with its requests served one after the other (a request   *)
(* is taken when no other waits for the store).                            *)
(***************************************************************************)
\* The period of the request bodies that do not vary it.
SomePeriod == [startDate |-> 1, endDate |-> 3]

SpecSavingsBodies ==
    {[amount |-> a, type |-> "Monthly", category |-> "Other", period |-> SomePeriod] :
        a \in {0 - 1, 50}}
    \cup {[amount |-> 50, type |-> "Monthly", category |-> "Other"]}

SpecExpenseBodies == {[amount |-> a, category |-> "Other"] : a \in {0, 50}}

SpecUpdateBodies == {[amount |-> 0], [amount |-> 200], [user |-> "u2"]}

\* The segments a client puts in the place of :id: the ids that were issued
\* and one that was not.
IdSegments == {ToString(i) : i \in 1..(MaxId + 1)}

\* The lists of identifiers of a bulk request.
SpecBulkIds == {ids \in SUBSET IdSegments : Cardinality(ids) \in {0, MaxId}}


Quiet == pend = {}

Next ==
    \/ \E u \in Users, body \in SpecSavingsBodies :
          Quiet /\ Serve(Req("savings", "POST", <<>>, u, Empty, body), 1)
    \/ \E u \in Users, id \in IdSegments :
          Quiet /\ Serve(Req("savings", "GET", <<id>>, u, Empty, Empty), NULL)
    \/ \E u \in Users, id \in IdSegments, body \in SpecUpdateBodies :
          Quiet /\ Serve(Req("savings", "PUT", <<id>>, u, Empty, body), NULL)
    \/ \E p \in pend : SavingsSave(p)
    \/ \E u \in Users, id \in IdSegments :
          Quiet /\ Serve(Req("savings", "DELETE", <<id>>, u, Empty, Empty), NULL)
    \/ \E u \in Users :
          Quiet /\ Serve(Req("savings", "GET", <<"goals">>, u, Empty, Empty), NULL)
    \/ \E u \in Users, ids \in SpecBulkIds :
          Quiet /\ Serve(Req("savings", "DELETE", <<"bulk">>, u, Empty,
                             [savingsIds |-> ids]), NULL)
    \/ \E u \in Users :
          Quiet /\ Serve(Req("savings", "GET", <<"categories">>, u, Empty, Empty), NULL)
    \/ \E u \in Users, body \in SpecExpenseBodies :
          Quiet /\ Serve(Req("expenses", "POST", <<>>, u, Empty, body), 1)
    \/ \E u \in Users, id \in IdSegments :
          Quiet /\ Serve(Req("expenses", "GET", <<id>>, u, Empty, Empty), NULL)
    \/ \E u \in Users, id \in IdSegments, body \in SpecUpdateBodies :
          Quiet /\ Serve(Req("expenses", "PUT", <<id>>, u, Empty, body), NULL)
    \/ \E p \in pend : ExpenseSave(p)
    \/ \E u \in Users, id \in IdSegments :
          Quiet /\ Serve(Req("expenses", "DELETE", <<id>>, u, Empty, Empty), NULL)
    \/ \E u \in Users, ids \in SpecBulkIds :
          Quiet /\ Serve(Req("expenses", "DELETE", <<"bulk">>, u, Empty,
                             [expenseIds |-> ids]), NULL)
    \/ \E u \in Users :
          Quiet /\ Serve(Req("expenses", "GET", <<"categories">>, u, Empty, Empty), NULL)

Spec == Init /\ [][Next]_vars

(***************************************************************************)
(* Properties of Spec.                                                     *)
(***************************************************************************)
ByIdHandlers ==
    {"savings.getById", "savings.update", "savings.delete",
     "expenses.getById", "expenses.update", "expenses.delete"}

\* The collection a router works on.
CollectionOf(router, sav, exp) == IF router = "savings" THEN sav ELSE exp

\* The response of a by-id handler that found nothing.
NotFoundBody(router) ==
    [message |-> IF router = "savings" THEN "Savings entry not found" ELSE "Expense not found"]

\* The step answers a by-id request of r.req.user for an id that names none of
\* that user's documents: a document of another user, or no document.
NamesNoneOfCallers(r, sav, exp) ==
    /\ r.handler \in ByIdHandlers
    /\ IsObjectId(r.req.path[1])
    /\ LET coll == CollectionOf(r.req.router, sav, exp)
           id == r.req.path[1]
       IN  id \notin DOMAIN coll \/ coll[id].user /= r.req.user

\* C4: a get, update or delete by id whose id names a document of another user
\* has the outcome it has when the id names no document: the store is
\* unchanged and the response is the 404 of the handler (or, for an update
\* whose body fails validation, the 400 that is sent before any lookup), a
\* response that does not depend on the documents of other users.
C4_NotFoundHidesExistence ==
    [][ NamesNoneOfCallers(resp', savings, expenses) =>
            /\ savings' = savings
            /\ expenses' = expenses
            /\ \/ /\ resp'.status = 404
                  /\ resp'.body = NotFoundBody(resp'.req.router)
               \/ /\ resp'.status = 400
                  /\ resp'.handler \in {"savings.update", "expenses.update"}
                  /\ resp'.body = ValidationFailed(
                        IF resp'.req.router = "savings"
                        THEN SavingsUpdateErrors(resp'.req.body)
                        ELSE ExpenseUpdateErrors(resp'.req.body)) ]_vars

\* A by-id request was answered 404 while the id names another user's document.
C4_Witness ==
    /\ resp.handler \in ByIdHandlers
    /\ resp.status = 404
    /\ LET coll == CollectionOf(resp.req.router, savings, expenses)
       IN  /\ resp.req.path[1] \in DOMAIN coll
           /\ coll[resp.req.path[1]].user /= resp.req.user

\* The identifiers listed by a bulk-delete request.
ListedIds(r) ==
    r.req.body[IF r.req.router = "savings" THEN "savingsIds" ELSE "expenseIds"]

\* The step answers a bulk-delete request whose list names at least one
\* document of the caller.
IsBulkRequest(r, sav, exp) ==
    /\ r.req.method = "DELETE"
    /\ r.req.path = <<"bulk">>
    /\ LET coll == CollectionOf(r.req.router, sav, exp)
       IN  \E id \in ListedIds(r) \cap DOMAIN coll : coll[id].user = r.req.user

\* C5: a bulk delete by U whose list names documents of U removes exactly the
\* listed documents that U owns, leaves every other document as it is, and
\* reports their number as deletedCount.
C5_BulkDelete ==
    [][ IsBulkRequest(resp', savings, expenses) =>
            LET r == resp'
                coll == CollectionOf(r.req.router, savings, expenses)
                own == {id \in ListedIds(r) \cap DOMAIN coll : coll[id].user = r.req.user}
            IN  /\ CollectionOf(r.req.router, savings', expenses') = Without(coll, own)
                /\ r.status = 200
                /\ r.body.data.deletedCount = Cardinality(own) ]_vars

\* C18: a request to a documented endpoint is served by the handler of that
\* endpoint: GET /api/savings/goals by the goals handler, GET
\* /api/savings/categories and GET /api/expenses/categories by the categories
\* handlers, DELETE /api/savings/bulk and DELETE /api/expenses/bulk by the
\* bulk-delete handlers, and none of them by a ':id' handler.
C18_OwnHandlers ==
    LET r == resp.req
        own == CASE r.method = "GET" /\ r.path = <<"goals">> /\ r.router = "savings" ->
                        "savings.goals"
                 [] r.method = "GET" /\ r.path = <<"categories">> /\ r.router = "savings" ->
                        "savings.categories"
                 [] r.method = "GET" /\ r.path = <<"categories">> /\ r.router = "expenses" ->
                        "expenses.categories"
                 [] r.method = "DELETE" /\ r.path = <<"bulk">> /\ r.router = "savings" ->
                        "savings.bulkDelete"
                 [] r.method = "DELETE" /\ r.path = <<"bulk">> /\ r.router = "expenses" ->
                        "expenses.bulkDelete"
                 [] OTHER -> resp.handler
    IN  resp.handler = own

\* C21: every error response of a route handler (status 400 or above) has a
\* body with success = false and a message, and a validation failure has
\* the errors list as well.
C21_ErrorResponseShape ==
    (resp.status >= 400 /\ resp.handler \notin {"none", "notFound", "protect"}) =>
        /\ Has(resp.body, "message")
        /\ Has(resp.body, "success") /\ resp.body["success"] = FALSE
        /\ resp.body["message"] = "Validation failed" => Has(resp.body, "errors")

\* C22: the owner of a record never changes: a record that a step keeps has
\* after the step the owner it had before, whatever the body of the request.
C22_OwnershipImmutable ==
    [][ /\ \A id \in DOMAIN savings \cap DOMAIN savings' :
              savings'[id].user = savings[id].user
        /\ \A id \in DOMAIN expenses \cap DOMAIN expenses' :
              expenses'[id].user = expenses[id].user ]_vars

\* C23: every stored expense has an amount of 0.01 or more, and a create or
\* an update of an expense whose body has an amount below 0.01 is answered
\* 400 and leaves the store as it was.
C23_ExpenseAmount ==
    /\ [](\A id \in DOMAIN expenses : expenses[id].amount >= ExpenseMinAmount)
    /\ [][ (/\ resp'.handler \in {"expenses.create", "expenses.update"}
            /\ Has(resp'.req.body, "amount")
            /\ resp'.req.body["amount"] < ExpenseMinAmount) =>
                /\ resp'.status = 400
                /\ UNCHANGED <<expenses, savings, pend>> ]_vars

\* An update of a stored expense to the amount 0 was refused.
C23_Witness ==
    /\ resp.handler = "expenses.update"
    /\ resp.req.body = [amount |-> 0]
    /\ resp.status = 400
    /\ resp.req.path[1] \in DOMAIN expenses
    /\ expenses[resp.req.path[1]].user = resp.req.user

(***************************************************************************)
(* PageSpec: the pagination of the list handlers, applied to a page and a  *)
(* limit that pass the validators and to the count of a query.  A request  *)
(* is drawn with the numbers its strings stand for.                        *)
(***************************************************************************)
\* The strings a client may write the integer n as.
Renderings(n) == {Digits(n), <<"+">> \o Digits(n), <<"0">> \o Digits(n)}

\* The queries that ask for page p with limit l; the defaults may be left out.
PageQueries(p, l) ==
    LET pages == Renderings(p) \cup (IF p = MinPage THEN {<<>>} ELSE {})
        limits == {Digits(l)} \cup (IF l = DefaultLimit THEN {<<>>} ELSE {})
    IN  { [k \in (IF ps = <<>> THEN {} ELSE {"page"}) \cup
                 (IF ls = <<>> THEN {} ELSE {"limit"}) |->
               IF k = "page" THEN ps ELSE ls] : ps \in pages, ls \in limits }

PageInit ==
    /\ users = SeedUsers
    /\ savings = Empty
    /\ expenses = Empty
    /\ nextId = 1
    /\ pend = {}
    /\ resp = NoStep
    /\ \E p \in MinPage..MaxPage, l \in MinPage..MaxLimit, t \in 0..MaxTotal :
          \E q \in PageQueries(p, l) :
             calc = [in |-> << [page |-> p, limit |-> l, total |-> t, query |-> q] >>,
                     out |-> <<>>]

\* The pagination steps of a list handler whose count is calc.in[1].total.
Paginate ==
    /\ calc.out = <<>>
    /\ ListErrors(calc.in[1].query, {"date"}) = {}
    /\ LET q == calc.in[1].query
       IN  calc' = [in |-> calc.in,
                    out |-> << [skip |-> Skip(PageOf(q), LimitOf(q)),
                                limit |-> ParseInt(LimitOf(q)),
                                pagination |-> Pagination(PageOf(q), LimitOf(q),
                                                          calc.in[1].total)] >>]
    /\ UNCHANGED <<savings, expenses, nextId, pend, resp, users>>

PageSpec == PageInit /\ [][Paginate]_vars

\* C9: for page >= 1, limit in 1..100 and total >= 0 the list handlers skip
\* (page-1)*limit documents and report totalPages = ceil(total/limit),
\* hasNextPage = (page < totalPages), hasPrevPage = (page > 1), currentPage =
\* page, itemsPerPage = limit and totalItems = total.
C9_Pagination ==
    calc.out /= <<>> =>
        LET i == calc.in[1]
            o == calc.out[1]
            totalPages == CHOOSE n \in 0..i.total :
                              n * i.limit >= i.total /\ (n - 1) * i.limit < i.total
        IN  /\ o.skip = (i.page - 1) * i.limit
            /\ o.limit = i.limit
            /\ o.pagination = [currentPage |-> i.page,
                               totalPages |-> totalPages,
                               totalItems |-> i.total,
                               itemsPerPage |-> i.limit,
                               hasNextPage |-> i.page < totalPages,
                               hasPrevPage |-> i.page > 1]

\* total = 95 and limit = 20 give 5 pages, of which page 5 is the last.
C9_Witness ==
    /\ calc.out /= <<>>
    /\ calc.in[1].total = 95 /\ calc.in[1].limit = 20 /\ calc.in[1].page = 5
    /\ calc.out[1].skip = 80
    /\ calc.out[1].pagination.totalPages = 5
    /\ ~calc.out[1].pagination.hasNextPage
    /\ calc.out[1].pagination.hasPrevPage

(***************************************************************************)
(* QuerySpec: the reading handlers, run on a store of MaxDocs savings      *)
(* entries and MaxDocs expenses that were created through the models.      *)
(***************************************************************************)
\* The date of the i-th document of the store.
QueryDate(i) == ((i - 1) % 3) + 1

\* The savings entries of the store; owner[i] created the i-th, dated date[i].
QuerySavings(owner, date) ==
    [id \in {ToString(i) : i \in 1..MaxDocs} |->
        LET i == IdNum(id)
            body == IF i % 2 = 0
                    THEN [amount |-> 50 * i, type |-> "Goal", period |-> SomePeriod,
                          goal |-> [targetAmount |-> 200]]
                    ELSE IF i = 3
                    THEN [amount |-> 50 * i, type |-> "Monthly", period |-> SomePeriod,
                          currency |-> "USD"]
                    ELSE [amount |-> 50 * i, type |-> "Monthly", period |-> SomePeriod]
        IN  updateGoalProgress(NewSavings(CreateData(body, owner[i]), date[i]))]

\* The expenses of the store.
QueryExpenses(owner, date) ==
    [id \in {ToString(i) : i \in 1..MaxDocs} |->
        LET i == IdNum(id)
            base == [amount |-> 10 * i,
                     category |-> IF i % 2 = 0 THEN "Food & Dining" ELSE "Other"]
            body == IF i = 3 THEN With(base, "currency", "USD") ELSE base
        IN  NewExpense(CreateData(body, owner[i]), date[i])]

QueryInit ==
    /\ users = SeedUsers
    /\ \E owner \in [1..MaxDocs -> Users] :
          /\ savings = QuerySavings(owner, [i \in 1..MaxDocs |-> QueryDate(i)])
          /\ expenses = QueryExpenses(owner, [i \in 1..MaxDocs |-> QueryDate(i)])
    /\ nextId = MaxDocs + 1
    /\ pend = {}
    /\ resp = NoStep
    /\ calc = Idle

\* A criterion that is left out, or has one of the values of S.
Opt(S) == {{}} \cup {{v} : v \in S}

\* req.query of the criteria that were not left out.
Supplied(r) == [k \in {x \in DOMAIN r : r[x] /= {}} |-> CHOOSE v \in r[k] : TRUE]

SavingsFilterQueries ==
    { Supplied(r) : r \in [startDate : Opt({2}), endDate : Opt({2}),
                           minAmount : Opt({Digits(0), Digits(100)}),
                           maxAmount : Opt({Digits(0), Digits(100)}),
                           type : Opt({"Monthly", ""}), category : Opt({"Other"})] }

ExpenseFilterQueries ==
    { Supplied(r) : r \in [startDate : Opt({2}), endDate : Opt({2}),
                           minAmount : Opt({Digits(0), Digits(100)}),
                           maxAmount : Opt({Digits(0), Digits(100)}),
                           category : Opt({"Other"}), paymentMethod : Opt({"Cash", ""})] }

\* What a client may write for page and for limit.
PageTexts == {<<>>, Digits(0), <<"-", "1">>, <<"x">>, Digits(1), <<"+", "2">>}

LimitTexts == {<<>>, Digits(0), <<"1", ".", "5">>, Digits(2), Digits(MaxLimit),
               Digits(MaxLimit + 1)}

PagingQueries == { Supplied(r) : r \in [page : Opt(PageTexts), limit : Opt(LimitTexts)] }

DateQueries == { Supplied(r) : r \in [startDate : Opt(Dates), endDate : Opt(Dates)] }

AnalyticsQueries ==
    { Supplied(r) : r \in [startDate : Opt(Dates), endDate : Opt(Dates),
                           currency : Opt({"UGX", "USD", ""})] }

\* The reading handlers leave the store as it is and do not look at the
\* responses before theirs: a behaviour of one request shows every response.
First == resp = NoStep

QueryNext ==
    \/ \E u \in Users, q \in SavingsFilterQueries \cup PagingQueries :
          First /\ Serve(Req("savings", "GET", <<>>, u, q, Empty), NULL)
    \/ \E u \in Users, q \in ExpenseFilterQueries \cup PagingQueries :
          First /\ Serve(Req("expenses", "GET", <<>>, u, q, Empty), NULL)
    \/ \E u \in Users, q \in DateQueries :
          First /\ Serve(Req("savings", "GET", <<"summary", "period">>, u, q, Empty), NULL)
    \/ \E u \in Users, q \in DateQueries :
          First /\ Serve(Req("expenses", "GET", <<"summary", "summary">>, u, q, Empty), NULL)
    \/ \E u \in Users, type \in {"Monthly", "Other"}, q \in DateQueries :
          First /\ Serve(Req("savings", "GET", <<"type", type>>, u, q, Empty), NULL)
    \/ \E u \in Users, q \in AnalyticsQueries :
          First /\ Serve(Req("analytics", "GET", <<"overview">>, u, q, Empty), NULL)
    \/ \E u \in Users, q \in AnalyticsQueries :
          First /\ Serve(Req("analytics", "GET", <<"expenses", "pie-chart">>, u, q, Empty), NULL)
    \/ \E u \in Users, q \in AnalyticsQueries :
          First /\ Serve(Req("analytics", "GET", <<"savings", "pie-chart">>, u, q, Empty), NULL)

QuerySpec == QueryInit /\ [][QueryNext]_vars

\* The list handlers.
ListHandlers == {"savings.list", "expenses.list"}

\* C6: the predicate a list handler builds has the clause user = caller; it has
\* a date clause exactly when startDate or endDate was supplied and an amount
\* clause exactly when minAmount or maxAmount was supplied (a bound of 0 is
\* supplied); it has a category, type or paymentMethod clause only when that
\* criterion was supplied, and no other clause.
C6_FilterPresence ==
    (resp.handler \in ListHandlers /\ resp.status = 200) =>
        LET q == resp.req.query
            pred == resp.sent[1]
        IN  /\ resp.sent = <<pred, pred>>
            /\ "user" \in DOMAIN pred /\ pred["user"] = [op \in {"$eq"} |-> resp.req.user]
            /\ "date" \in DOMAIN pred <=> ("startDate" \in DOMAIN q \/ "endDate" \in DOMAIN q)
            /\ "amount" \in DOMAIN pred <=> ("minAmount" \in DOMAIN q \/ "maxAmount" \in DOMAIN q)
            /\ \A k \in {"category", "type", "paymentMethod"} :
                  k \in DOMAIN pred => k \in DOMAIN q
            /\ DOMAIN pred \subseteq
                  {"user", "date", "amount", "category", "type", "paymentMethod"}

\* A list request with minAmount=0 and no maxAmount was answered from a
\* predicate whose amount clause is { $gte: 0 }.
C6_Witness ==
    /\ resp.handler \in ListHandlers /\ resp.status = 200
    /\ "minAmount" \in DOMAIN resp.req.query /\ resp.req.query["minAmount"] = <<"0">>
    /\ "maxAmount" \notin DOMAIN resp.req.query
    /\ "amount" \in DOMAIN resp.sent[1]
    /\ resp.sent[1]["amount"] = [op \in {"$gte"} |-> 0]

\* The documents of coll that user owns.
OwnedBy(coll, user) == {id \in DOMAIN coll : coll[id].user = user}

\* C7: GET /api/savings/summary/period without startDate and endDate
\* aggregates over all the savings entries of the caller: total is their sum
\* and count is their number.
C7_SummaryWithoutDates ==
    (/\ resp.handler = "savings.summary"
     /\ resp.status = 200
     /\ DOMAIN resp.req.query = {}) =>
        /\ resp.body.data.total = SumAmount(savings, OwnedBy(savings, resp.req.user))
        /\ resp.body.data.count = Cardinality(OwnedBy(savings, resp.req.user))

\* C8: when exactly one of startDate and endDate is supplied to a list handler
\* or to GET /api/savings/type/:type, every returned document satisfies the
\* supplied bound, and every document of the caller (of that type) that
\* satisfies it and the other criteria is counted or returned.
C8_OneSidedDateBound ==
    (/\ resp.handler \in ListHandlers \cup {"savings.byType"}
     /\ resp.status = 200
     /\ ("startDate" \in DOMAIN resp.req.query) /= ("endDate" \in DOMAIN resp.req.query)) =>
        LET q == resp.req.query
            data == resp.body.data
            InBound(d) == IF "startDate" \in DOMAIN q THEN d >= q["startDate"]
                          ELSE d <= q["endDate"]
        IN  /\ \A i \in 1..Len(data) : InBound(data[i].date)
            /\ resp.handler = "savings.byType" =>
                  {data[i]._id : i \in 1..Len(data)} =
                      {id \in OwnedBy(savings, resp.req.user) :
                          /\ savings[id].type = resp.req.path[2]
                          /\ InBound(savings[id].date)}

\* The text is a way of writing the integer n.
Denotes(text, n) == text \in Renderings(n)

\* C10: a list request whose page is not an integer >= 1, or whose limit is
\* not an integer in 1..100, is answered 400 with an error for each such field
\* and sends no query to the store.
C10_InvalidPagingRejected ==
    resp.handler \in ListHandlers =>
        LET q == resp.req.query
            badPage == /\ "page" \in DOMAIN q
                       /\ ~\E n \in 1..(MaxLimit + 1) : Denotes(q["page"], n)
            badLimit == /\ "limit" \in DOMAIN q
                        /\ ~\E n \in 1..MaxLimit : Denotes(q["limit"], n)
        IN  (badPage \/ badLimit) =>
                /\ resp.status = 400
                /\ resp.body.message = "Validation failed"
                /\ badPage => "page" \in resp.body.errors
                /\ badLimit => "limit" \in resp.body.errors
                /\ resp.sent = <<>>

\* A list request with limit=101 was answered 400 and sent no query.
C10_Witness ==
    /\ resp.handler \in ListHandlers
    /\ "limit" \in DOMAIN resp.req.query
    /\ resp.req.query["limit"] = Digits(MaxLimit + 1)
    /\ resp.status = 400
    /\ "limit" \in resp.body.errors
    /\ resp.sent = <<>>

\* C11: a summary or pie-chart response has exactly one row for each group key
\* (expense category, savings type) that a record matching the predicate has,
\* the total of a row is the sum of the amounts of the matching records of its
\* group and its count their number, and the rows come by total descending.
C11_GroupedAggregation ==
    LET h == resp.handler
        ofSavings == h \in {"savings.summary", "analytics.savingsPieChart"}
        coll == IF ofSavings THEN savings ELSE expenses
        key == IF ofSavings THEN "type" ELSE "category"
        \* the rows of the response as <<group key, total, count>>
        rows == IF h \in {"savings.summary", "expenses.summary"}
                THEN [i \in DOMAIN resp.body.data.summary |->
                        LET r == resp.body.data.summary[i] IN <<r._id, r.total, r.count>>]
                ELSE [i \in DOMAIN resp.body.data["pieChartData"] |->
                        LET r == resp.body.data["pieChartData"][i]
                        IN  <<r[key], r["amount"], r["count"]>>]
        matching == Find(coll, resp.sent[1])
        group(g) == {id \in matching : coll[id][key] = g}
    IN  (/\ h \in {"savings.summary", "expenses.summary", "analytics.expensesPieChart",
                   "analytics.savingsPieChart"}
         /\ resp.status = 200) =>
            /\ {rows[i][1] : i \in DOMAIN rows} = {coll[id][key] : id \in matching}
            /\ \A i, j \in DOMAIN rows : i /= j => rows[i][1] /= rows[j][1]
            /\ \A i \in DOMAIN rows :
                  /\ rows[i][2] = SumAmount(coll, group(rows[i][1]))
                  /\ rows[i][3] = Cardinality(group(rows[i][1]))
            /\ \A i, j \in DOMAIN rows : i < j => rows[i][2] >= rows[j][2]

\* A pie chart of two groups, the larger first, the smaller having two records.
C11_Witness ==
    /\ resp.handler = "analytics.expensesPieChart" /\ resp.status = 200
    /\ Len(resp.body.data["pieChartData"]) = 2
    /\ resp.body.data["pieChartData"][1]["amount"] > resp.body.data["pieChartData"][2]["amount"]
    /\ resp.body.data["pieChartData"][1]["count"] = 2

\* C14: the percentage of a pie-chart row is the number round2(row total /
\* grand total * 100) when the grand total is positive and the number 0 when
\* it is 0; the savingsRate of the overview is the number round2(totalSavings
\* / totalExpenses * 100) when totalExpenses is positive and 0 otherwise.
\* The value is a number in every case.
C14_RatioMetrics ==
    LET \* v is the number round2(part / whole * 100), or 0 when whole is 0
        IsRatio(v, part, whole) ==
            /\ DOMAIN v = {"number"}
            /\ IF whole > 0
               THEN v.number * 100 = (2 * part * 10000 + whole) \div (2 * whole)
               ELSE v.number = 0
        rows == resp.body.data["pieChartData"]
        overview == resp.body.data.overview
    IN  /\ (/\ resp.handler \in {"analytics.expensesPieChart", "analytics.savingsPieChart"}
            /\ resp.status = 200) =>
               \A i \in DOMAIN rows :
                   IsRatio(rows[i]["percentage"], rows[i]["amount"],
                           resp.body.data[IF resp.handler = "analytics.expensesPieChart"
                                          THEN "totalExpenses" ELSE "totalSavings"])
        /\ (resp.handler = "analytics.overview" /\ resp.status = 200) =>
               IsRatio(overview.savingsRate, overview.totalSavings, overview.totalExpenses)

(***************************************************************************)
(* TrendSpec: the monthly trends of a store whose savings entries and       *)
(* expenses are dated in the months of two years.                          *)
(***************************************************************************)
\* January, March and December of EpochYear, January of the next year.
TrendDates == {DateOf(EpochYear, 1), DateOf(EpochYear, 3), DateOf(EpochYear, MonthsOfYear),
               DateOf(EpochYear + 1, 1)}

\* What a client may write for year.
YearTexts == {Digits(MinYear), <<"+">> \o Digits(MinYear), Digits(MinYear + 1),
              Digits(MinYear - 1), Digits(MaxYear + 1), <<>>}

TrendQueries ==
    { Supplied(r) : r \in [year : Opt(YearTexts), currency : Opt({"UGX", "USD"})] }

TrendInit ==
    /\ users = SeedUsers
    /\ \E owner \in [1..MaxDocs -> Users], sdate \in [1..MaxDocs -> TrendDates] :
          /\ savings = QuerySavings(owner, sdate)
          /\ expenses = QueryExpenses(owner, [i \in 1..MaxDocs |-> sdate[MaxDocs + 1 - i]])
    /\ nextId = MaxDocs + 1
    /\ pend = {}
    /\ resp = NoStep
    /\ calc = Idle

TrendNext ==
    \E u \in Users, q \in TrendQueries, now \in {DateOf(EpochYear, 2), DateOf(EpochYear + 1, 2)} :
        First /\ Serve(Req("analytics", "GET", <<"trends", "monthly">>, u, q, Empty), now)

TrendSpec == TrendInit /\ [][TrendNext]_vars

\* C12: a monthly-trends response has exactly 12 monthlyData entries, the i-th
\* of month i; a month in which no expense (no savings entry) matches reports
\* expenses = 0 (savings = 0); netWorth is savings minus expenses.
C12_MonthlyDensification ==
    (resp.handler = "analytics.monthlyTrends" /\ resp.status = 200) =>
        LET md == resp.body.data.monthlyData
            none(coll, m) == \A id \in Find(coll, resp.sent[1]) : Month(coll[id].date) /= m
        IN  /\ Len(md) = 12
            /\ \A i \in 1..12 :
                  /\ md[i].month = i
                  /\ none(expenses, i) => md[i].expenses = 0
                  /\ none(savings, i) => md[i].savings = 0
                  /\ md[i].netWorth = md[i].savings - md[i].expenses

\* A year with expenses in March alone and savings in December alone.
C12_Witness ==
    /\ resp.handler = "analytics.monthlyTrends" /\ resp.status = 200
    /\ {i \in 1..12 : resp.body.data.monthlyData[i].expenses > 0} = {3}
    /\ {i \in 1..12 : resp.body.data.monthlyData[i].savings > 0} = {12}
    /\ resp.body.data.monthlyData[3].netWorth < 0

\* C13: totalExpenses (totalSavings) of a monthly-trends response is the sum of
\* the expenses (savings) of its 12 entries, and averageMonthlyExpenses
\* (averageMonthlySavings) is that sum divided by 12, empty months included.
C13_MonthlyAverages ==
    (resp.handler = "analytics.monthlyTrends" /\ resp.status = 200) =>
        LET md == resp.body.data.monthlyData
            sum(f) == md[1][f] + md[2][f] + md[3][f] + md[4][f] + md[5][f] + md[6][f]
                      + md[7][f] + md[8][f] + md[9][f] + md[10][f] + md[11][f] + md[12][f]
            twelfth(n) == IF n = 0 THEN <<0, 1>> ELSE <<n \div Gcd(n, 12), 12 \div Gcd(n, 12)>>
        IN  /\ Len(md) = 12
            /\ resp.body.data.totalExpenses = sum("expenses")
            /\ resp.body.data.totalSavings = sum("savings")
            /\ resp.body.data.averageMonthlyExpenses = twelfth(sum("expenses"))
            /\ resp.body.data.averageMonthlySavings = twelfth(sum("savings"))

\* One month of savings of 100 and no other: the average is 100/12 = 25/3.
C13_Witness ==
    /\ resp.handler = "analytics.monthlyTrends" /\ resp.status = 200
    /\ Cardinality({i \in 1..12 : resp.body.data.monthlyData[i].savings = 100}) = 1
    /\ resp.body.data.totalSavings = 100
    /\ resp.body.data.averageMonthlySavings = <<25, 3>>

(***************************************************************************)
(* ProgressSpec: the virtual goalProgressPercentage of a savings entry of   *)
(* any amount, with any target or none.                                    *)
(***************************************************************************)
ProgressInit ==
    /\ users = SeedUsers
    /\ \E a \in 0..MaxAmount, g \in {Empty} \cup {[targetAmount |-> t] : t \in 0..MaxTarget} :
          savings = [id \in {"1"} |->
                        NewSavings(CreateData([amount |-> a, type |-> "Goal",
                                               period |-> SomePeriod, goal |-> g], "u1"), 1)]
    /\ expenses = Empty
    /\ nextId = 2
    /\ pend = {}
    /\ resp = NoStep
    /\ calc = Idle

\* savings.goalProgressPercentage is read.
ReadProgress ==
    /\ calc.out = <<>>
    /\ calc' = [in |-> <<>>, out |-> <<goalProgressPercentage(savings["1"])>>]
    /\ UNCHANGED <<savings, expenses, nextId, pend, resp, users>>

ProgressSpec == ProgressInit /\ [][ReadProgress]_vars

\* C15: goalProgressPercentage is min(amount / targetAmount * 100, 100) when
\* targetAmount > 0 and 0 when targetAmount is absent or 0; for amount >= 0 it
\* lies in [0, 100].
C15_GoalProgressPercentage ==
    calc.out /= <<>> =>
        LET a == savings["1"].amount
            t == savings["1"].goal.targetAmount
            p == calc.out[1]
        IN  /\ p[2] > 0
            /\ (t = NULL \/ t = 0) => p[1] = 0
            /\ (t /= NULL /\ t > 0 /\ a <= t) => p[1] * t = a * 100 * p[2]
            /\ (t /= NULL /\ t > 0 /\ a > t) => p[1] = 100 * p[2]
            /\ 0 <= p[1] /\ p[1] <= 100 * p[2]

\* goalProgressPercentage(150, 100) = 100.
C15_Witness ==
    /\ calc.out /= <<>>
    /\ savings["1"].amount = 150 /\ savings["1"].goal.targetAmount = 100
    /\ calc.out[1] = <<100, 1>>

(***************************************************************************)
(* ReportSpec: the handler of GET /goals, entered at any instant on a store *)
(* of savings entries with and without a target date.  The router does not *)
(* lead a request to this handler (see Dispatch); ReportSpec is the handler *)
(* as it runs once entered.                                                *)
(***************************************************************************)
\* The goal of the entries: a target of 100 or of 0, a target date or none.
ReportGoals ==
    {[targetAmount |-> t] : t \in {0, 100}}
    \cup {[targetAmount |-> t, targetDate |-> d] : t \in {0, 100}, d \in Dates}

ReportInit ==
    /\ users = SeedUsers
    /\ \E goal \in [1..MaxDocs -> ReportGoals] :
          savings = [id \in {ToString(i) : i \in 1..MaxDocs} |->
                        LET i == IdNum(id)
                            body == [amount |-> 50, type |-> "Goal",
                                     period |-> [startDate |-> 1 + (i % 2), endDate |-> 3],
                                     goal |-> goal[i]]
                        IN  updateGoalProgress(
                                NewSavings(CreateData(body, IF i = 1 THEN "u2" ELSE "u1"), 1))]
    /\ expenses = Empty
    /\ nextId = MaxDocs + 1
    /\ pend = {}
    /\ resp = NoStep
    /\ calc = Idle

ReportNext ==
    \E u \in Users, now \in 0..MaxNow :
        First /\ SavingsGoals(Req("savings", "GET", <<"goals">>, u, Empty, Empty), now)

ReportSpec == ReportInit /\ [][ReportNext]_vars

\* C16: in the goals report isOnTrack is true for a goal without targetDate;
\* for a goal whose targetDate is not period.startDate it is true exactly when
\* amount / targetAmount >= (now - period.startDate) / (targetDate -
\* period.startDate).  The instant now of the report is the numerator of the
\* second division plus period.startDate.
C16_IsOnTrack ==
    (resp.handler = "savings.goals" /\ resp.status = 200) =>
        \A i \in DOMAIN resp.body.data :
            LET g == resp.body.data[i]
                a == g["amount"]
                t == g["goal"].targetAmount
                s == g["period"].startDate
                T == g["goal"].targetDate
                e == calc.in[i][2].n
            IN  /\ T = NULL => g["isOnTrack"] = TRUE
                /\ (T /= NULL /\ T > s) => (g["isOnTrack"] <=> a * (T - s) >= e * t)
                /\ (T /= NULL /\ T < s) => (g["isOnTrack"] <=> a * (T - s) <= e * t)

\* A report of two goals with a target date after period.startDate, one on
\* track and one not.
C16_Witness ==
    /\ resp.handler = "savings.goals" /\ resp.status = 200
    /\ \E i, j \in DOMAIN resp.body.data :
          LET g == resp.body.data[i]
              k == resp.body.data[j]
          IN  /\ g["goal"].targetDate /= NULL /\ g["goal"].targetDate > g["period"].startDate
              /\ k["goal"].targetDate /= NULL /\ k["goal"].targetDate > k["period"].startDate
              /\ g["isOnTrack"] /\ ~k["isOnTrack"]

\* C17: the goals handler divides by no zero: for every goal of the report,
\* the window goal.targetDate - period.startDate by which it divides the
\* elapsed time is not 0, and the targetAmount by which it divides the amount
\* is not 0.
C17_NoUndefinedDivision ==
    (resp.handler = "savings.goals" /\ resp.status = 200) =>
        \A i \in DOMAIN calc.in : \A j \in DOMAIN calc.in[i] : calc.in[i][j].d /= 0

(***************************************************************************)
(* GoalSpec: savings entries with goals, created and updated by requests   *)
(* that are served one after the other.                                    *)
(***************************************************************************)
GoalObjects ==
    {[targetAmount |-> 200], [targetAmount |-> 400],
     [targetAmount |-> 200, progress |-> Rat(50, 1), isCompleted |-> TRUE],
     [progress |-> Rat(150, 1)], [targetAmount |-> 0], [isCompleted |-> TRUE],
     [targetAmount |-> 0, progress |-> Rat(50, 1)]}

GoalCreateBodies ==
    {[amount |-> a, type |-> "Goal", category |-> "Other", period |-> SomePeriod,
      goal |-> g] : a \in {50, 200}, g \in GoalObjects}

GoalUpdateBodies ==
    {[amount |-> a] : a \in {50, 200, 300}} \cup {[goal |-> g] : g \in GoalObjects}
    \cup {[amount |-> 200, goal |-> [targetAmount |-> 400]]}

GoalNext ==
    \/ \E u \in Users, body \in GoalCreateBodies :
          Quiet /\ Serve(Req("savings", "POST", <<>>, u, Empty, body), 1)
    \/ \E u \in Users, id \in IdSegments, body \in GoalUpdateBodies :
          Quiet /\ Serve(Req("savings", "PUT", <<id>>, u, Empty, body), NULL)
    \/ \E p \in pend : SavingsSave(p)

GoalSpec == Init /\ [][GoalNext]_vars

\* The goal of document d is that of its amount: with a target above 0, its
\* progress n/m is amount / targetAmount * 100, at most 100, and isCompleted
\* says that the progress is 100.
Fresh(d) ==
    (d.goal.targetAmount /= NULL /\ d.goal.targetAmount > 0) =>
        LET n == d.goal.progress[1]
            m == d.goal.progress[2]
        IN  /\ m > 0
            /\ IF d.amount < d.goal.targetAmount
               THEN n * d.goal.targetAmount = d.amount * 100 * m
               ELSE n = 100 * m
            /\ d.goal.isCompleted = (n >= 100 * m)

\* C2: after any sequence of create and update requests, every stored savings
\* entry with goal.targetAmount > 0 has goal.progress = min(amount /
\* targetAmount * 100, 100) and goal.isCompleted = (goal.progress >= 100).
C2_GoalInvariant == \A id \in DOMAIN savings : Fresh(savings[id])

\* An update has left an entry with amount 50 and target 200 at progress 25,
\* not completed.
C2_Witness ==
    /\ resp.handler = "savings.update" /\ resp.status = 200
    /\ \E id \in DOMAIN savings :
          /\ resp.req.path = <<id>>
          /\ savings[id].amount = 50
          /\ savings[id].goal = [targetAmount |-> 200, targetDate |-> NULL,
                                 progress |-> <<25, 1>>, isCompleted |-> FALSE]

\* C26: a stored savings entry with goal.isCompleted = true has
\* goal.targetAmount > 0 and amount >= goal.targetAmount, and a stored entry
\* with goal.progress > 0 has goal.targetAmount > 0.
C26_CompletionFlagSound ==
    \A id \in DOMAIN savings :
        LET d == savings[id]
            targeted == d.goal.targetAmount /= NULL /\ d.goal.targetAmount > 0
        IN  /\ d.goal.isCompleted => (targeted /\ d.amount >= d.goal.targetAmount)
            /\ ~RatLe(d.goal.progress, Zero) => targeted

(***************************************************************************)
(* RaceSpec: the savings router with its requests interleaved: an update   *)
(* may find its document while other updates hold theirs, and the saves    *)
(* reach the store in any order.                                           *)
(***************************************************************************)
RaceCreateBodies ==
    {[amount |-> 50, type |-> "Goal", category |-> "Other", period |-> SomePeriod,
      goal |-> [targetAmount |-> 200]]}

RaceUpdateBodies == {[amount |-> 200], [goal |-> [targetAmount |-> 400]], [user |-> "u2"]}

RaceNext ==
    \/ \E u \in Users, body \in RaceCreateBodies :
          Serve(Req("savings", "POST", <<>>, u, Empty, body), 1)
    \/ \E u \in Users, id \in IdSegments, body \in RaceUpdateBodies :
          Serve(Req("savings", "PUT", <<id>>, u, Empty, body), NULL)
    \/ \E p \in pend : SavingsSave(p)
    \/ \E u \in Users, id \in IdSegments :
          Serve(Req("savings", "DELETE", <<id>>, u, Empty, Empty), NULL)
    \/ \E u \in Users, id \in IdSegments :
          Serve(Req("savings", "GET", <<id>>, u, Empty, Empty), NULL)

RaceSpec == Init /\ [][RaceNext]_vars

\* C1: no step of a request of user U modifies or deletes a savings entry or
\* an expense that another user owns when the step is taken.
C1_OwnerScoping ==
    [][ /\ \A id \in DOMAIN savings :
              savings[id].user /= resp'.req.user =>
                  id \in DOMAIN savings' /\ savings'[id] = savings[id]
        /\ \A id \in DOMAIN expenses :
              expenses[id].user /= resp'.req.user =>
                  id \in DOMAIN expenses' /\ expenses'[id] = expenses[id] ]_vars

\* C3: under every interleaving of update requests on a savings entry, each
\* save leaves the stored entry with the goal progress of its stored amount
\* and target.
C3_GoalAtomic ==
    [][ (resp'.handler = "savings.update" /\ resp'.req.path[1] \in DOMAIN savings') =>
            Fresh(savings'[resp'.req.path[1]]) ]_vars

\* The savings entry id was created and is no longer stored: ids are issued
\* in order and never again.
Deleted(id) == IdNum(id) < nextId /\ id \notin DOMAIN savings

ListQueries == {Empty, [limit |-> Digits(1)], [page |-> Digits(2), limit |-> Digits(1)]}

ListNext ==
    \/ \E u \in Users, body \in RaceCreateBodies :
          Serve(Req("savings", "POST", <<>>, u, Empty, body), 1)
    \/ \E u \in Users, id \in IdSegments :
          Serve(Req("savings", "DELETE", <<id>>, u, Empty, Empty), NULL)
    \/ \E u \in Users, q \in ListQueries, first \in {"find", "count"} :
          SavingsListFirst(Req("savings", "GET", <<>>, u, q, Empty), first)
    \/ \E p \in pend : SavingsListSecond(p)

ListSpec == Init /\ [][ListNext]_vars

\* C28: a list response returns min(limit, max(0, totalItems - skip)) items,
\* each of which matches the predicate of the request.
C28_PageAndCountAgree ==
    (resp.handler = "savings.list" /\ resp.status = 200) =>
        LET q == resp.req.query
            limit == ParseInt(LimitOf(q))
            rest == resp.body.pagination.totalItems - Skip(PageOf(q), LimitOf(q))
            due == IF rest < 0 THEN 0 ELSE IF rest < limit THEN rest ELSE limit
        IN  /\ Len(resp.body.data) = due
            /\ \A i \in DOMAIN resp.body.data :
                  resp.body.data[i].user = resp.req.user

(***************************************************************************)
(* AuthSpec: the application with its clients: requests that carry the     *)
(* token of an account and requests that carry none, to the auth router    *)
(* and to the protected routers.                                           *)
(***************************************************************************)
\* The instant of the requests of AuthSpec.
AuthNow == 2

AuthEmails ==
    { <<"a", "@", "b", ".", "c", "c">>, <<"A", "@", "b", ".", "c", "c">>,
      <<"c", "@", "b", ".", "c", "c">>, <<"c", "@", "b", ".", "c", "c", "c", "c">>,
      <<"a", "b">> }

AuthPasswords == {Digits(123456), Digits(123), <<>>}

AuthNames == {<<"a">>, <<" ">>}

\* The bodies that leave the field f out or give it one of vals.
Pick(f, vals) == {Empty} \cup {[k \in {f} |-> v] : v \in vals}

\* { ...a, ...b } of two objects with no common key.
Merge(a, b) == [k \in DOMAIN a \cup DOMAIN b |-> IF k \in DOMAIN a THEN a[k] ELSE b[k]]

LoginBodies ==
    {Merge(m, p) : m \in Pick("email", AuthEmails), p \in Pick("password", AuthPasswords)}

RegisterBodies ==
    {Merge(Merge(b, f), l) : b \in LoginBodies, f \in Pick("firstName", AuthNames),
                             l \in Pick("lastName", {<<"b">>})}

\* Requests to the four protected routers.
ProtectedRequests(user) ==
    { Req("expenses", "GET", <<>>, user, Empty, Empty),
      Req("expenses", "GET", <<"1">>, user, Empty, Empty),
      Req("savings", "GET", <<>>, user, Empty, Empty),
      Req("savings", "DELETE", <<"1">>, user, Empty, Empty),
      Req("analytics", "GET", <<"overview">>, user, Empty, Empty),
      Req("user", "GET", <<"profile">>, user, Empty, Empty),
      Req("user", "DELETE", <<"account">>, user, Empty, [password |-> Digits(123456)]) }

AuthInit ==
    /\ users = SeedUsers
    /\ savings = Empty
    /\ expenses = Empty
    /\ nextId = 1
    /\ pend = {}
    /\ resp = NoStep
    /\ calc = Idle

AuthNext ==
    \/ \E body \in RegisterBodies :
          Serve(Req("auth", "POST", <<"register">>, NoToken, Empty, body), AuthNow)
    \/ \E body \in LoginBodies :
          Serve(Req("auth", "POST", <<"login">>, NoToken, Empty, body), AuthNow)
    \/ \E req \in ProtectedRequests(NoToken) : Serve(req, AuthNow)
    \/ \E u \in DOMAIN users : \E req \in ProtectedRequests(u) : Serve(req, AuthNow)
    \/ \E body \in SpecExpenseBodies :
          Serve(Req("expenses", "POST", <<>>, "u1", Empty, body), AuthNow)

AuthSpec == AuthInit /\ [][AuthNext]_vars

\* C19: a request without a token to an expense, savings, analytics or user
\* route is answered 401 'Not authorized, no token' by the auth middleware:
\* no route handler runs, no query is sent to a store and no store changes.
C19_ProtectedRoutesRequireToken ==
    [][ (resp'.req.router \in {"expenses", "savings", "analytics", "user"}
            /\ resp'.req.user = NoToken) =>
            /\ resp'.status = 401
            /\ resp'.body = [message |-> "Not authorized, no token"]
            /\ resp'.handler = "protect"
            /\ resp'.sent = <<>>
            /\ UNCHANGED <<savings, expenses, users, nextId, pend>> ]_vars

\* A request without a token was refused while the store held an expense.
C19_Witness ==
    /\ resp.handler = "protect"
    /\ resp.req.router = "expenses"
    /\ resp.req.user = NoToken
    /\ resp.status = 401
    /\ expenses /= Empty

\* The required fields of a registration and of a login.
RequiredFields(req) ==
    IF req.path = <<"register">> THEN {"email", "password", "firstName", "lastName"}
    ELSE {"email", "password"}

\* The request lacks a required field: one is absent or the empty string, or
\* the email is not an address.
LacksRequiredField(req) ==
    \/ \E f \in RequiredFields(req) : ~Has(req.body, f) \/ req.body[f] = <<>>
    \/ ~IsEmail(req.body["email"])

\* C20: a registration or a login that lacks a required field (a valid
\* email, a password, and for a registration the first and the last name) is
\* answered 400 'Validation failed', issues no token and leaves the user
\* store as it was.
C20_ValidationPrecedesEffects ==
    [][ (resp'.req.router = "auth" /\ LacksRequiredField(resp'.req)) =>
            /\ resp'.status = 400
            /\ resp'.body.message = "Validation failed"
            /\ ~Has(resp'.body, "token")
            /\ users' = users ]_vars

\* A registration without lastName was refused after an account was created.
C20_Witness ==
    /\ resp.handler = "auth.register"
    /\ DOMAIN resp.req.body = {"email", "password", "firstName"}
    /\ resp.req.body["email"] = <<"c", "@", "b", ".", "c", "c">>
    /\ Len(resp.req.body["password"]) >= MinPasswordLength
    /\ resp.req.body["firstName"] = <<"a">>
    /\ resp.status = 400
    /\ DOMAIN users /= Users

(***************************************************************************)
(* ReadSpec: the reading requests, each sent any number of times and at    *)
(* two instants a year apart, to a store with two expense categories of    *)
(* equal total; deletions change the store between them.                   *)
(***************************************************************************)
ReadInstants == {DateOf(EpochYear, 2), DateOf(EpochYear + 1, 2)}

\* Two expenses of u1 of the same amount in two categories, the second a
\* year after the first, and one of u2.
ReadExpenses ==
    [id \in {"1", "2", "3"} |->
        NewExpense(CreateData([amount |-> 10,
                               category |-> IF id = "2" THEN "Food & Dining" ELSE "Other"],
                              IF id = "3" THEN "u2" ELSE "u1"),
                   IF id = "2" THEN DateOf(EpochYear + 1, 1) ELSE DateOf(EpochYear, 1))]

ReadInit ==
    /\ users = SeedUsers
    /\ savings = QuerySavings([i \in 1..MaxDocs |-> "u1"],
                              [i \in 1..MaxDocs |-> DateOf(EpochYear, i)])
    /\ expenses = ReadExpenses
    /\ nextId = MaxDocs + 1
    /\ pend = {}
    /\ resp = NoStep
    /\ calc = Idle

\* The reading requests of user u.
ReadRequests(u) ==
    { Req(router, "GET", path, u, Empty, Empty) :
          router \in {"savings", "expenses"},
          path \in {<<>>, <<"1">>, <<"categories">>} }
    \cup { Req("savings", "GET", path, u, Empty, Empty) :
              path \in {<<"summary", "period">>, <<"goals">>, <<"type", "Monthly">>} }
    \cup { Req("expenses", "GET", <<"summary", "summary">>, u, Empty, Empty) }
    \cup { Req("analytics", "GET", path, u, q, Empty) :
              path \in {<<"expenses", "pie-chart">>, <<"savings", "pie-chart">>,
                        <<"overview">>, <<"trends", "monthly">>},
              q \in {Empty, [year |-> Digits(MinYear)]} }

ReadNext ==
    \/ \E u \in Users, now \in ReadInstants :
          \E req \in ReadRequests(u) : Serve(req, now)
    \/ \E u \in Users, router \in {"savings", "expenses"}, id \in {"1", "2"} :
          Serve(Req(router, "DELETE", <<id>>, u, Empty, Empty), NULL)

ReadSpec == ReadInit /\ [][ReadNext]_vars

\* A list, get-by-id, summary, goals, by-type, categories or analytics request.
IsReadRequest(req) ==
    req.method = "GET" /\ req.router \in {"savings", "expenses", "analytics"}

\* The elements of a sequence of rows, whatever their order.
Rows(seq) == {seq[i] : i \in DOMAIN seq}

\* The body of a response, the rows that are sorted by total taken without
\* their order.
UpToTies(r) ==
    CASE r.status /= 200 -> r.body
      [] r.handler \in {"savings.summary", "expenses.summary"} ->
            [r.body.data EXCEPT !.summary = Rows(@)]
      [] r.handler \in {"analytics.expensesPieChart", "analytics.savingsPieChart"} ->
            [r.body.data EXCEPT !["pieChartData"] = Rows(@)]
      [] r.handler = "analytics.overview" ->
            [r.body.data EXCEPT !.topExpenseCategories = Rows(@),
                                !.topSavingsTypes = Rows(@)]
      [] OTHER -> r.body

\* Both are monthly trends of the same year, or neither is a monthly trend.
SameYear(r, s) ==
    (r.handler = "analytics.monthlyTrends" /\ r.status = 200 /\ s.status = 200) =>
        r.body.data.year = s.body.data.year

WithOwnerAndCurrency(body) ==
    { Merge(body, Merge(o, c)) : o \in Pick("user", Users),
                                 c \in Pick("currency", Currencies \cup {"", "XXX"}) }

CreateSavingsBodies ==
    UNION { WithOwnerAndCurrency(body) : body \in SpecSavingsBodies }

CreateExpenseBodies ==
    UNION { WithOwnerAndCurrency(body) : body \in SpecExpenseBodies }

CreateNext ==
    \/ \E u \in Users, body \in CreateSavingsBodies :
          Serve(Req("savings", "POST", <<>>, u, Empty, body), 1)
    \/ \E u \in Users, body \in CreateExpenseBodies :
          Serve(Req("expenses", "POST", <<>>, u, Empty, body), 1)
    \/ \E u \in Users, router \in {"savings", "expenses"}, id \in IdSegments :
          Serve(Req(router, "DELETE", <<id>>, u, Empty, Empty), NULL)

CreateSpec == Init /\ [][CreateNext]_vars

\* C25: a successful create of a savings entry or an expense by user U stores
\* one new record whose owner is U, whatever 'user' the body carries, and
\* whose currency is the currency of the body when it has one (not the empty
\* string) and the default currency of U otherwise.
C25_CreatedRecordOwner ==
    [][ (resp'.handler \in {"savings.create", "expenses.create"} /\ resp'.status = 201) =>
            LET req == resp'.req
                before == CollectionOf(req.router, savings, expenses)
                after == CollectionOf(req.router, savings', expenses')
                new == DOMAIN after \ DOMAIN before
            IN  /\ Cardinality(new) = 1
                /\ \A id \in new :
                      /\ after[id].user = req.user
                      /\ after[id].currency =
                            IF Has(req.body, "currency") /\ req.body["currency"] /= ""
                            THEN req.body["currency"]
                            ELSE users[req.user].currency ]_vars

\* u1 created a savings entry with a body that names u2 and no currency.
C25_Witness ==
    /\ resp.handler = "savings.create"
    /\ resp.status = 201
    /\ resp.req.user = "u1"
    /\ Has(resp.req.body, "user") /\ resp.req.body["user"] = "u2"
    /\ ~Has(resp.req.body, "currency")
    /\ \E id \in DOMAIN savings : savings[id].user = "u1" /\ savings[id].currency = "UGX"

(***************************************************************************)
(* SummarySpec: summary requests whose two aggregations are answered one   *)
(* after the other, with creations and deletions between them.             *)
(***************************************************************************)
SummaryQueries == {Empty, [startDate |-> 1, endDate |-> 3]}

SummaryNext ==
    \/ \E u \in Users, body \in RaceCreateBodies :
          Serve(Req("savings", "POST", <<>>, u, Empty, body), 1)
    \/ \E u \in Users, body \in SpecExpenseBodies :
          Serve(Req("expenses", "POST", <<>>, u, Empty, body), 1)
    \/ \E u \in Users, router \in {"savings", "expenses"}, id \in IdSegments :
          Serve(Req(router, "DELETE", <<id>>, u, Empty, Empty), NULL)
    \/ \E u \in Users, q \in SummaryQueries :
          SavingsSummaryRows(Req("savings", "GET", <<"summary", "period">>, u, q, Empty))
    \/ \E u \in Users, q \in SummaryQueries :
          ExpenseSummaryRows(Req("expenses", "GET", <<"summary", "summary">>, u, q, Empty))
    \/ \E p \in pend : SavingsSummaryTotal(p)
    \/ \E p \in pend : ExpenseSummaryTotal(p)

SummarySpec == Init /\ [][SummaryNext]_vars

\* The sum of the field k over the rows of a summary.
RECURSIVE SumRows(_, _)
SumRows(rows, k) ==
    IF rows = <<>> THEN 0 ELSE Head(rows)[k] + SumRows(Tail(rows), k)

\* C29: in every expense-summary and savings-period-summary response the
\* grand total is the sum of the totals of the rows and the grand count is
\* the sum of their counts.
C29_SummaryTotalsAgree ==
    (resp.handler \in {"expenses.summary", "savings.summary"} /\ resp.status = 200) =>
        /\ resp.body.data.total = SumRows(resp.body.data.summary, "total")
        /\ resp.body.data.count = SumRows(resp.body.data.summary, "count")

(***************************************************************************)
(* AccountSpec: the accounts under logins, profile, notification and       *)
(* password updates and deactivations; a profile update is between its     *)
(* findById and its save while other requests are served.                  *)
(***************************************************************************)
AccountPasswords == {Digits(123456), Digits(222222), <<>>}

AccountLoginBodies ==
    {Merge([email |-> <<"A", "@", "b", ".", "c", "c">>], p) :
        p \in Pick("password", AccountPasswords)}

AccountRegisterBodies ==
    {[email |-> <<"a", "@", "b", ".", "c", "c">>, password |-> Digits(222222),
      firstName |-> <<"a">>, lastName |-> <<"b">>]}

AccountProfileBodies ==
    {[firstName |-> <<" ", "z">>, isActive |-> TRUE], [currency |-> "UGX"]}

AccountNotificationBodies ==
    {Empty, [notificationSettings |-> [dailyReminder |-> FALSE, isActive |-> TRUE]]}

AccountPasswordBodies ==
    {[currentPassword |-> Digits(123456), newPassword |-> Digits(222222)],
     [currentPassword |-> Digits(123456), newPassword |-> Digits(123)]}

AccountNext ==
    \/ \E body \in AccountLoginBodies :
          Serve(Req("auth", "POST", <<"login">>, NoToken, Empty, body), AuthNow)
    \/ \E body \in AccountRegisterBodies :
          Serve(Req("auth", "POST", <<"register">>, NoToken, Empty, body), AuthNow)
    \/ \E body \in AccountProfileBodies :
          Serve(Req("user", "PUT", <<"profile">>, "u1", Empty, body), AuthNow)
    \/ \E p \in pend : UserProfileSave(p)
    \/ \E body \in AccountNotificationBodies :
          Serve(Req("user", "PUT", <<"notifications">>, "u1", Empty, body), AuthNow)
    \/ \E body \in AccountPasswordBodies :
          Serve(Req("user", "PUT", <<"change-password">>, "u1", Empty, body), AuthNow)
    \/ \E u \in Users, p \in Pick("password", AccountPasswords) :
          Serve(Req("user", "DELETE", <<"account">>, u, Empty, p), AuthNow)

AccountSpec == Init /\ [][AccountNext]_vars

\* The accounts that a login request names.
LoginTarget(req) ==
    IF Has(req.body, "email") THEN FindByEmail(LowerCase(req.body["email"])) ELSE {}

\* An account that is deactivated stays so, a deactivation that succeeds
\* leaves the account deactivated, and one that does not leaves the accounts
\* as they are.
DeactivationSticks ==
    /\ \A u \in DOMAIN users : ~users[u].isActive => u \in DOMAIN users' /\ ~users'[u].isActive
    /\ (resp' /= resp /\ resp'.handler = "user.deleteAccount") =>
           IF resp'.status = 200
           THEN /\ comparePassword(users[resp'.req.user], resp'.req.body["password"])
                /\ ~users'[resp'.req.user].isActive
           ELSE users' = users

\* The login of a step, when it names an account that was deactivated
\* before the step.
LoginOfDeactivated ==
    /\ resp' /= resp
    /\ resp'.handler = "auth.login"
    /\ \E u \in LoginTarget(resp'.req) : ~users[u].isActive

\* C30 as stated: deactivation is permanent, and every later login for the
\* account is answered 401 without a token.
C30_LoginAlways401 ==
    [][/\ DeactivationSticks
       /\ LoginOfDeactivated =>
              resp'.status = 401 /\ ~Has(resp'.body, "token")]_vars

\* C30: deactivation is permanent: no profile update, notification update,
\* password change or login makes a deactivated account active again, and a
\* deactivation with a wrong password changes nothing; every later login for
\* the account issues no token and is answered 401, or 400 when the request
\* fails validation.
C30_DeactivationPermanent ==
    [][/\ DeactivationSticks
       /\ LoginOfDeactivated =>
              /\ resp'.status = IF LoginErrors(resp'.req.body) = {} THEN 401 ELSE 400
              /\ ~Has(resp'.body, "token")
              /\ users' = users]_vars

C30_Witness ==
    /\ resp.handler = "auth.login"
    /\ resp.status = 401
    /\ resp.body.message = "Account is deactivated"
    /\ \E u \in LoginTarget(resp.req) :
          /\ ~users[u].isActive
          /\ comparePassword(users[u], resp.req.body["password"])
          /\ users[u].firstName = <<"z">>

====
